---------------------------- MODULE Spec2Model ----------------------------
(***************************************************************************)
(* State-machine models of the emulator cores of jgenesis:                 *)
(*   - the Sharp SM83 CPU (backend/gb-core/src/sm83.rs): the instruction   *)
(*     step, its interrupt service routine and its opcode dispatch;        *)
(*   - the 68000 opcode decoder (m68000-emu/src/core/instructions.rs);     *)
(*   - the Game Boy pulse channel and its frequency sweep unit             *)
(*     (backend/gb-core/src/apu/pulse.rs).                                 *)
(*   - PulseChannel::sample of the same file, as a function of the        *)
(*     channel state it reads;                                             *)
(*   - the Genesis memory map (genesis-core/src/memory.rs): the 68000 and  *)
(*     Z80 sides of MainBus over Memory;                                   *)
(*   - the Genesis region detection (genesis-core/src/api.rs, memory.rs);  *)
(*   - GenesisEmulator::tick (genesis-core/src/api.rs): the clock ratios   *)
(*     and the steps at a completed frame;                                 *)
(*   - SmsGgEmulator (smsgg-core/src/api.rs): tick and the two resets;     *)
(*   - the WRAM port of the SNES memory (snes-core/src/memory.rs).          *)
(* Each core has its own next-state relation and specification; the       *)
(* variables of the other cores stay at their initial values.             *)
(***************************************************************************)
EXTENDS Integers, Naturals, Sequences, FiniteSets, TLC

VARIABLES
    \* ---- SNES Memory: the WRAM port (snes-core/src/memory.rs) ----
    main_ram,           \* the bytes written so far, by address; the rest are 0
    wram_port_address,
    wram_last,          \* observation of the last operation: its name, the
                        \* value written or read, the address it found
    wram_ops,           \* number of operations made so far
    \* ---- SmsGgEmulator (smsgg-core/src/api.rs) ----
    leftover_vdp_cycles,
    frame_count,
    reset_frames_remaining,
    sms_ram,        \* the cartridge RAM: has a battery, is dirty, written since the last persist_save
    sms_ticked,     \* since creation or the last hard reset: the T-cycles
                    \* executed, the PSG and VDP ticks made, and whether every
                    \* collaborator call succeeded
    sms_soft,       \* since the last soft_reset, if there was one: the frames
                    \* the VDP completed and those that got as far as set_reset
    sms_last,       \* observation of the last tick: its inputs, the
                    \* collaborator calls it made in order, what it returned
    sms_ticks,      \* number of ticks made so far
    \* ---- GenesisEmulator (genesis-core/src/api.rs) ----
    master_clock_cycles,
    gen_ticked,     \* how often tick has so far ticked the Z80, the PSG and the
                    \* YM2612, and the 68000 cycles it has executed
    gen_ram,        \* the cartridge's external RAM: persistent, empty, dirty,
                    \* and whether a write came after the last persist_save
    gen_last,       \* observation of the last tick: its inputs, the
                    \* collaborator calls it made in order, what it returned
    gen_ticks,      \* number of ticks made so far
    \* ---- Genesis region detection (genesis-core/src/api.rs, memory.rs) ----
    rgn_rom,        \* the ROM handed to Cartridge::from_rom: its length and
                    \* the bytes at offsets $1F0-$1F2
    rgn_forced,     \* forced_region: "None" or a region
    rgn_result,     \* what from_rom and Cartridge::from_rom came to
    \* ---- SM83 (sm83.rs) ----
    registers,      \* Sm83.registers : Registers
    state,          \* Sm83.state : State
    pending,        \* the bus: the interrupts it reports pending (IE & IF)
    panic,          \* "none", or the abort (todo!/expect) the CPU ran into
    call,           \* observation of the last execute_instruction call
    log,            \* observation: the bus operations of that call, in order
    ei_age,         \* observation: 1 after a call that executed EI with IME
                    \* false, 2 and 3 after the next two calls, else 0
    serviced,       \* observation: an interrupt was serviced and neither EI
                    \* nor RETI has been executed since
    calls,          \* number of execute_instruction calls made so far
    \* ---- SM83 opcode dispatch, taken alone ----
    dec_opcode,     \* the opcode byte handed to execute_opcode (-1: none yet)
    dec_second,     \* the byte fetched after 0xCB (-1: none)
    dec_arms,       \* the match arms that byte selects
    dec_outcome,    \* "none" | "handler" | "invalid" | "abort"
    \* ---- 68000 decode_opcode ----
    m68k_opcode,    \* the opcode word (-1: none yet)
    m68k_supervisor,
    m68k_result,    \* what decode_opcode did with it
    \* ---- pulse channel (apu/pulse.rs) ----
    sweep,          \* PulseChannel.sweep : SweepUnit
    timer,          \* PulseChannel.timer : PulseTimer (its frequency)
    channel_enabled,
    dac_enabled,
    pulse_panic,    \* "none", or the arithmetic overflow the channel aborted on
    pulse_last,     \* observation of the last operation on the channel
    pulse_ops,      \* number of operations made so far
    \* ---- PulseChannel::sample ----
    smp_channel,    \* the fields of the PulseChannel that sample reads
    smp_result,     \* what sample returned ("unsampled": not called yet)
    \* ---- Genesis MainBus / Memory (genesis-core/src/memory.rs) ----
    bank_bits,      \* observation: the bits so far written to the Z80 bank
                    \* register, oldest first, the last nine of them
    memory,         \* Memory: main_ram, audio_ram, z80_bank_register, signals
    bus_last,       \* observation of the last bus operation: what was asked,
                    \* what it returned, the calls it made to the other chips
    bus_ops         \* number of bus operations made so far

sm83_vars == <<registers, state, pending, panic, call, log, ei_age,
               serviced, calls>>
dec_vars  == <<dec_opcode, dec_second, dec_arms, dec_outcome>>
m68k_vars == <<m68k_opcode, m68k_supervisor, m68k_result>>
pulse_vars == <<sweep, timer, channel_enabled, dac_enabled, pulse_panic,
                pulse_last, pulse_ops>>
smp_vars == <<smp_channel, smp_result>>
bus_vars == <<bank_bits, memory, bus_last, bus_ops>>
rgn_vars == <<rgn_rom, rgn_forced, rgn_result>>
gen_vars == <<master_clock_cycles, gen_ticked, gen_ram, gen_last, gen_ticks>>
sms_vars == <<leftover_vdp_cycles, frame_count, reset_frames_remaining, sms_ram, sms_ticked, sms_soft, sms_last, sms_ticks>>
wram_vars == <<main_ram, wram_port_address, wram_last, wram_ops>>
vars == <<sm83_vars, dec_vars, m68k_vars, pulse_vars, smp_vars, bus_vars, rgn_vars, gen_vars, sms_vars, wram_vars>>

\* what the operations of one core leave alone: the other cores
sm83_rest == <<dec_vars, m68k_vars, pulse_vars, smp_vars, bus_vars, rgn_vars, gen_vars, sms_vars, wram_vars>>
dec_rest == <<sm83_vars, m68k_vars, pulse_vars, smp_vars, bus_vars, rgn_vars, gen_vars, sms_vars, wram_vars>>
m68k_rest == <<sm83_vars, dec_vars, pulse_vars, smp_vars, bus_vars, rgn_vars, gen_vars, sms_vars, wram_vars>>
pulse_rest == <<sm83_vars, dec_vars, m68k_vars, smp_vars, bus_vars, rgn_vars, gen_vars, sms_vars, wram_vars>>
smp_rest == <<sm83_vars, dec_vars, m68k_vars, pulse_vars, bus_vars, rgn_vars, gen_vars, sms_vars, wram_vars>>
bus_rest == <<sm83_vars, dec_vars, m68k_vars, pulse_vars, smp_vars, rgn_vars, gen_vars, sms_vars, wram_vars>>
rgn_rest == <<sm83_vars, dec_vars, m68k_vars, pulse_vars, smp_vars, bus_vars, gen_vars, sms_vars, wram_vars>>
gen_rest == <<sm83_vars, dec_vars, m68k_vars, pulse_vars, smp_vars, bus_vars, rgn_vars, sms_vars, wram_vars>>
sms_rest == <<sm83_vars, dec_vars, m68k_vars, pulse_vars, smp_vars, bus_vars, rgn_vars, gen_vars, wram_vars>>
wram_rest == <<sm83_vars, dec_vars, m68k_vars, pulse_vars, smp_vars, bus_vars, rgn_vars, gen_vars, sms_vars>>

(***************************************************************************)
(* Fixed-width arithmetic.                                                 *)
(***************************************************************************)
U8  == 256
U16 == 65536

wrapping_add16(x, y) == (x + y) % U16
wrapping_sub16(x, y) == (x - y + U16) % U16

\* u16::to_le_bytes: <<lsb, msb>>
to_le_bytes(v) == <<v % 256, v \div 256>>

\* bit n of v (GetBit::bit)
RECURSIVE Pow2(_)
Pow2(n) == IF n = 0 THEN 1 ELSE 2 * Pow2(n - 1)
bit(v, n) == (v \div Pow2(n)) % 2 = 1
\* v & (mask of the bits hi..lo), kept in place
Field(v, hi, lo) == ((v % Pow2(hi + 1)) \div Pow2(lo)) * Pow2(lo)

(***************************************************************************)
(* SM83: Registers::new, State::new, InterruptType.                        *)
(***************************************************************************)
ENTRY_POINT == \h0100
HRAM_END    == \hFFFE

Registers_new ==
    [a |-> \h01, f |-> \h80, b |-> \h00, c |-> \h13, d |-> \h00, e |-> \hD8,
     h |-> \h01, l |-> \h4D, sp |-> HRAM_END, pc |-> ENTRY_POINT, ime |-> FALSE]

State_new ==
    [pending_ime_set |-> FALSE, handling_interrupt |-> FALSE, halted |-> FALSE,
     halt_bug_triggered |-> FALSE, executed_invalid_opcode |-> FALSE]

InterruptType == {"VBlank", "LcdStatus", "Timer", "Serial", "Joypad"}

interrupt_vector(k) ==
    CASE k = "VBlank"    -> \h0040
      [] k = "LcdStatus" -> \h0048
      [] k = "Timer"     -> \h0050
      [] k = "Serial"    -> \h0058
      [] k = "Joypad"    -> \h0060

\* BusInterface::highest_priority_interrupt on a bus that reports the set q:
\* "none", or the pending interrupt of highest priority (the order of the enum).
highest_priority_interrupt(q) ==
    IF "VBlank" \in q THEN "VBlank"
    ELSE IF "LcdStatus" \in q THEN "LcdStatus"
    ELSE IF "Timer" \in q THEN "Timer"
    ELSE IF "Serial" \in q THEN "Serial"
    ELSE IF "Joypad" \in q THEN "Joypad"
    ELSE "none"

(***************************************************************************)
(* SM83: the match of execute_opcode, arm by arm in source order, and of   *)
(* execute_cb_prefix_opcode.  An arm is its pattern (a set of bytes) and   *)
(* what it does: the handler it calls, "todo" (todo!() aborts), "cb" (the  *)
(* second dispatch) or "invalid" (the lock-up arm).                        *)
(***************************************************************************)
Arm(p, t) == [pattern |-> p, target |-> t]

execute_opcode_arms == <<
    Arm({\h00}, "nop"),
    Arm({\h01, \h11, \h21, \h31}, "ld_rr_nn"),
    Arm({\h03, \h13, \h23, \h33}, "inc_rr"),
    Arm({\h0B, \h1B, \h2B, \h3B}, "dec_rr"),
    Arm({\h09, \h19, \h29, \h39}, "add_hl_rr"),
    Arm({\h04, \h0C, \h14, \h1C, \h24, \h2C, \h34, \h3C}, "inc_r"),
    Arm({\h05, \h0D, \h15, \h1D, \h25, \h2D, \h35, \h3D}, "dec_r"),
    Arm({\h06, \h0E, \h16, \h1E, \h26, \h2E, \h36, \h3E}, "ld_r_imm"),
    Arm({\h02}, "ld_bc_a"),
    Arm({\h07}, "rlca"),
    Arm({\h08}, "ld_indirect_sp"),
    Arm({\h0A}, "ld_a_bc"),
    Arm({\h0F}, "rrca"),
    Arm({\h10}, "todo"),
    Arm({\h12}, "ld_de_a"),
    Arm({\h17}, "rla"),
    Arm({\h18}, "jr_e"),
    Arm({\h1A}, "ld_a_de"),
    Arm({\h1F}, "rra"),
    Arm({\h20, \h28, \h30, \h38}, "jr_cc_e"),
    Arm({\h22}, "ld_hl_a_postinc"),
    Arm({\h27}, "daa"),
    Arm({\h2A}, "ld_a_hl_postinc"),
    Arm({\h2F}, "cpl"),
    Arm({\h32}, "ld_hl_a_postdec"),
    Arm({\h37}, "scf"),
    Arm({\h3A}, "ld_a_hl_postdec"),
    Arm({\h3F}, "ccf"),
    Arm((\h40..\h75) \cup (\h77..\h7F), "ld_r_r"),
    Arm({\h76}, "halt"),
    Arm(\h80..\h87, "add_a_r"),
    Arm(\h88..\h8F, "adc_a_r"),
    Arm(\h90..\h97, "sub_a_r"),
    Arm(\h98..\h9F, "sbc_a_r"),
    Arm(\hA0..\hA7, "and_a_r"),
    Arm(\hA8..\hAF, "xor_a_r"),
    Arm(\hB0..\hB7, "or_a_r"),
    Arm(\hB8..\hBF, "cp_a_r"),
    Arm({\hC1, \hD1, \hE1, \hF1}, "pop_rr"),
    Arm({\hC5, \hD5, \hE5, \hF5}, "push_rr"),
    Arm({\hC0, \hC8, \hD0, \hD8}, "ret_cc"),
    Arm({\hC2, \hCA, \hD2, \hDA}, "jp_cc_nn"),
    Arm({\hC4, \hCC, \hD4, \hDC}, "call_cc_nn"),
    Arm({\hC7, \hCF, \hD7, \hDF, \hE7, \hEF, \hF7, \hFF}, "rst"),
    Arm({\hC3}, "jp_nn"),
    Arm({\hC6}, "add_a_imm"),
    Arm({\hC9}, "ret"),
    Arm({\hCB}, "cb"),
    Arm({\hCD}, "call_nn"),
    Arm({\hCE}, "adc_a_imm"),
    Arm({\hD6}, "sub_a_imm"),
    Arm({\hD9}, "reti"),
    Arm({\hDE}, "sbc_a_imm"),
    Arm({\hE0}, "ldh_imm_a"),
    Arm({\hE2}, "ld_c_a_high_page"),
    Arm({\hE6}, "and_a_imm"),
    Arm({\hE8}, "add_sp_e"),
    Arm({\hE9}, "jp_hl"),
    Arm({\hEA}, "ld_indirect_a"),
    Arm({\hEE}, "xor_a_imm"),
    Arm({\hF0}, "ldh_a_imm"),
    Arm({\hF2}, "ld_a_c_high_page"),
    Arm({\hF3}, "di"),
    Arm({\hF6}, "or_a_imm"),
    Arm({\hF8}, "ld_hl_sp_e"),
    Arm({\hF9}, "ld_sp_hl"),
    Arm({\hFA}, "ld_a_indirect"),
    Arm({\hFB}, "ei"),
    Arm({\hFE}, "cp_a_imm"),
    Arm({\hD3, \hDB, \hDD, \hE3, \hE4, \hEB, \hEC, \hED, \hF4, \hFC, \hFD},
        "invalid") >>

execute_cb_prefix_opcode_arms == <<
    Arm(\h00..\h07, "rlc_r"),
    Arm(\h08..\h0F, "rrc_r"),
    Arm(\h10..\h17, "rl_r"),
    Arm(\h18..\h1F, "rr_r"),
    Arm(\h20..\h27, "sla"),
    Arm(\h28..\h2F, "sra"),
    Arm(\h30..\h37, "swap"),
    Arm(\h38..\h3F, "srl"),
    Arm(\h40..\h7F, "bit"),
    Arm(\h80..\hBF, "res"),
    Arm(\hC0..\hFF, "set") >>

\* The arms of a match whose pattern holds the byte.
MatchingArms(arms, byte) ==
    {i \in 1..Len(arms) : byte \in arms[i].pattern}

\* What a Rust match does with the byte: the first arm that matches.
Min(S) == CHOOSE x \in S : \A y \in S : x <= y
MatchTarget(arms, byte) ==
    LET m == MatchingArms(arms, byte)
    IN  IF m = {} THEN "unmatched" ELSE arms[Min(m)].target

\* execute_opcode's choice for a first byte, execute_cb_prefix_opcode's for
\* the byte after 0xCB.
opcode_target(opcode) == MatchTarget(execute_opcode_arms, opcode)
cb_target(opcode)     == MatchTarget(execute_cb_prefix_opcode_arms, opcode)

\* How a dispatch ends: in a handler, in the lock-up arm, or in an abort.
DispatchOutcome(target) ==
    CASE target = "todo"      -> "abort"
      [] target = "unmatched" -> "abort"
      [] target = "invalid"   -> "invalid"
      [] OTHER                -> "handler"


(***************************************************************************)
(* SM83: the bus as the CPU sees it.  The bus is a type parameter of the   *)
(* CPU (B: BusInterface); what is recorded of it is the order of the calls *)
(* the CPU makes.  The set of interrupts the bus reports can grow whenever *)
(* time passes on the bus (idle, read), can change in any way when the CPU *)
(* writes (the interrupt registers are memory mapped), and loses k when k  *)
(* is acknowledged.                                                        *)
(***************************************************************************)
BusIdle        == [op |-> "idle",  addr |-> 0, val |-> 0, arg |-> "none"]
BusRead(a)     == [op |-> "read",  addr |-> a, val |-> 0, arg |-> "none"]
BusWrite(a, v) == [op |-> "write", addr |-> a, val |-> v, arg |-> "none"]
BusAck(k)      == [op |-> "acknowledge_interrupt", addr |-> 0, val |-> 0, arg |-> k]
\* the bus traffic of an instruction handler, whatever it is
BusHandler(h)  == [op |-> "handler", addr |-> 0, val |-> 0, arg |-> h]

\* interrupts pending at once, at most
MaxPending == 2
PendingSets == {q \in SUBSET InterruptType : Cardinality(q) <= MaxPending}
AfterIdle(q)  == {p \in PendingSets : q \subseteq p}
AfterWrite(q) == PendingSets
acknowledge_interrupt(q, k) == q \ {k}

(***************************************************************************)
(* SM83: bounds of the model.                                              *)
(***************************************************************************)
\* execute_instruction calls per behaviour
MaxCalls == 4

\* The opcode bytes the bus returns to a fetch: the eleven invalid opcodes and
\* one opcode per kind of handler the step distinguishes (the dispatch over
\* all 256 bytes is NextDispatch's).
InvalidOpcodes ==
    {\hD3, \hDB, \hDD, \hE3, \hE4, \hEB, \hEC, \hED, \hF4, \hFC, \hFD}
FetchOpcodes == {\h00, \h76, \hFB, \hF3, \hD9, \h10, \hCB, \hE0} \cup InvalidOpcodes
\* The bytes fetched after 0xCB.
FetchCbOpcodes == {\hFF}
\* The return addresses RETI finds on the stack.
ReturnAddresses == {\hFFFF}

(***************************************************************************)
(* SM83: the instruction handlers the step depends on.  Their bodies are   *)
(* in flow.rs and load.rs; each is given as the set of results it can      *)
(* have, over the operands memory can hold.                                *)
(***************************************************************************)
Result(r, s) == [registers |-> r, state |-> s]

ei(r, s)   == {Result(r, [s EXCEPT !.pending_ime_set = TRUE])}
di(r, s)   == {Result([r EXCEPT !.ime = FALSE], [s EXCEPT !.pending_ime_set = FALSE])}
halt(r, s) == {Result(r, [s EXCEPT !.halted = TRUE])}
reti(r, s) ==
    {Result([r EXCEPT !.pc = t, !.sp = wrapping_add16(r.sp, 2), !.ime = TRUE], s)
        : t \in ReturnAddresses}
nop(r, s) == {Result(r, s)}
\* LDH (u8), A: one operand byte, one write into $FF00-$FFFF
ldh_imm_a(r, s) == {Result([r EXCEPT !.pc = wrapping_add16(r.pc, 1)], s)}
\* the other handlers act on the general registers and on memory only; the one
\* fetched here (SET 7, A) sets bit 7 of A
other_handler(r, s) ==
    {Result([r EXCEPT !.a = IF r.a >= 128 THEN r.a ELSE r.a + 128], s)}

\* The handlers that write to the bus, among those fetched here.
HandlerWrites(target) == target \in {"ldh_imm_a"}
\* What the bus reports after a handler ran on a bus that reported q.
AfterHandler(target, q) ==
    IF HandlerWrites(target) THEN AfterWrite(q) ELSE AfterIdle(q)

HandlerResults(target, r, s) ==
    CASE target = "ei"       -> ei(r, s)
      [] target = "di"       -> di(r, s)
      [] target = "halt"     -> halt(r, s)
      [] target = "reti"     -> reti(r, s)
      [] target = "nop"      -> nop(r, s)
      [] target = "ldh_imm_a" -> ldh_imm_a(r, s)
      [] OTHER               -> other_handler(r, s)

(***************************************************************************)
(* SM83: the helpers of sm83.rs.                                           *)
(***************************************************************************)
\* fetch_operand: the read at PC, and PC + 1
fetch_operand(r) == [r EXCEPT !.pc = wrapping_add16(r.pc, 1)]

\* push_stack_u16: the registers after, and the two writes it makes
push_stack_u16(r, value) ==
    LET bytes == to_le_bytes(value)
        sp1   == wrapping_sub16(r.sp, 1)
        sp2   == wrapping_sub16(sp1, 1)
    IN  [registers |-> [r EXCEPT !.sp = sp2],
         writes    |-> <<BusWrite(sp1, bytes[2]), BusWrite(sp2, bytes[1])>>]

\* poll_for_interrupts treating an EI that has not taken effect yet as an
\* enabled IME
poll_for_interrupts_pending_ei(r, s, q) ==
    [s EXCEPT !.handling_interrupt =
        (r.ime \/ s.pending_ime_set) /\ highest_priority_interrupt(q) # "none"]

\* poll_for_interrupts, on a bus reporting q
poll_for_interrupts(r, s, q) ==
    [s EXCEPT !.handling_interrupt =
        r.ime /\ highest_priority_interrupt(q) # "none"]

\* the wake-up from HALT going to the service routine whatever IME is
WakeFromHalt_servicing(r, s) ==
    IF s.halted /\ ~s.handling_interrupt
    THEN [s EXCEPT !.halted = FALSE, !.handling_interrupt = TRUE]
    ELSE s

\* execute_instruction, lines 209-222, past the early return: a halted CPU
\* with an interrupt pending wakes up, and services it if IME is set
WakeFromHalt(r, s) ==
    IF s.halted /\ ~s.handling_interrupt
    THEN [s EXCEPT !.halted = FALSE, !.handling_interrupt = r.ime]
    ELSE s

\* execute_instruction, lines 230-233: a pending EI takes effect
ApplyPendingIme(r, s) ==
    IF s.pending_ime_set
    THEN Result([r EXCEPT !.ime = TRUE], [s EXCEPT !.pending_ime_set = FALSE])
    ELSE Result(r, s)

\* true when the call returns at line 214: halted, nothing to wake it
HaltedAndIdle ==
    /\ state.halted /\ ~state.handling_interrupt
    /\ highest_priority_interrupt(pending) = "none"

\* the last call was an EI that set pending_ime_set while IME was false
JustEI == call.path = "fetch" /\ call.handler = "ei" /\ ~registers.ime

\* ei_age after a call, given the call and the registers it leaves
NextEiAge(c, r) ==
    IF c.path = "fetch" /\ c.handler = "ei" /\ ~r.ime THEN 1
    ELSE IF ei_age \in {1, 2} THEN ei_age + 1
    ELSE 0

Call(path, handler, woke, latched) ==
    [path |-> path, handler |-> handler, woke |-> woke, ime_latched |-> latched]

(***************************************************************************)
(* SM83: execute_instruction, one action per way through it.               *)
(***************************************************************************)
CanCall == panic = "none" /\ calls < MaxCalls

\* the frozen path falling through to the interrupt poll after its idle
ExecuteFrozen_polling ==
    /\ CanCall
    /\ UNCHANGED sm83_rest
    /\ state.executed_invalid_opcode
    /\ log' = <<BusIdle>>
    /\ pending' \in AfterIdle(pending)
    /\ state' = [state EXCEPT !.handling_interrupt =
                    registers.ime /\ highest_priority_interrupt(pending') # "none"]
    /\ call' = Call("frozen", "none", FALSE, FALSE)
    /\ ei_age' = NextEiAge(call', registers')
    /\ calls' = calls + 1
    /\ UNCHANGED <<registers, panic, serviced>>

\* lines 203-207: the CPU is frozen
ExecuteFrozen ==
    /\ CanCall
    /\ UNCHANGED sm83_rest
    /\ state.executed_invalid_opcode
    /\ log' = <<BusIdle>>
    /\ pending' \in AfterIdle(pending)
    /\ call' = Call("frozen", "none", FALSE, FALSE)
    /\ ei_age' = NextEiAge(call', registers')
    /\ calls' = calls + 1
    /\ UNCHANGED <<registers, state, panic, serviced>>

\* the halted path leaving HALT on every call
ExecuteHalted_waking ==
    /\ CanCall
    /\ UNCHANGED sm83_rest
    /\ ~state.executed_invalid_opcode
    /\ HaltedAndIdle
    /\ log' = <<BusIdle>>
    /\ pending' \in AfterIdle(pending)
    /\ state' = [state EXCEPT !.halted = FALSE]
    /\ call' = Call("halted", "none", FALSE, FALSE)
    /\ ei_age' = NextEiAge(call', registers')
    /\ calls' = calls + 1
    /\ UNCHANGED <<registers, panic, serviced>>

\* lines 209-215: halted and no interrupt pending
ExecuteHalted ==
    /\ CanCall
    /\ UNCHANGED sm83_rest
    /\ ~state.executed_invalid_opcode
    /\ HaltedAndIdle
    /\ log' = <<BusIdle>>
    /\ pending' \in AfterIdle(pending)
    /\ call' = Call("halted", "none", FALSE, FALSE)
    /\ ei_age' = NextEiAge(call', registers')
    /\ calls' = calls + 1
    /\ UNCHANGED <<registers, state, panic, serviced>>

\* lines 224-228 with execute_interrupt_service_routine (420-438)
ExecuteInterrupt ==
    /\ CanCall
    /\ UNCHANGED sm83_rest
    /\ ~state.executed_invalid_opcode
    /\ ~HaltedAndIdle
    /\ LET s1     == WakeFromHalt(registers, state)
           pushed == push_stack_u16(registers, registers.pc)
           head   == <<BusIdle, BusIdle>> \o pushed.writes
       IN  /\ s1.handling_interrupt
           /\ \E q \in AfterWrite(pending) :
                LET k == highest_priority_interrupt(q)
                IN  IF k = "none"
                    THEN \* the expect() at line 427 aborts
                         /\ panic' = "expect_pending_interrupt"
                         /\ registers' = pushed.registers
                         /\ state' = s1
                         /\ log' = head
                         /\ pending' = q
                         /\ serviced' = serviced
                    ELSE /\ panic' = panic
                         /\ registers' = [pushed.registers EXCEPT
                                            !.pc = interrupt_vector(k),
                                            !.ime = FALSE]
                         /\ state' = [s1 EXCEPT !.handling_interrupt = FALSE]
                         /\ log' = head \o <<BusAck(k), BusIdle>>
                         /\ pending' = acknowledge_interrupt(q, k)
                         /\ serviced' = TRUE
           /\ call' = Call("interrupt", "none", s1.halted # state.halted, FALSE)
    /\ ei_age' = NextEiAge(call', registers')
    /\ calls' = calls + 1

\* lines 230-238 with execute_opcode (241-390), execute_cb_prefix_opcode
\* (392-418) and poll_for_interrupts (475-478)
ExecuteFetch ==
    /\ CanCall
    /\ UNCHANGED sm83_rest
    /\ ~state.executed_invalid_opcode
    /\ ~HaltedAndIdle
    /\ LET s1 == WakeFromHalt(registers, state)
           l  == ApplyPendingIme(registers, s1)
           r2 == fetch_operand(l.registers)
       IN  /\ ~s1.handling_interrupt
           /\ \E opcode \in FetchOpcodes :
                LET target == opcode_target(opcode)
                IN  /\ call' = Call("fetch", target, s1.halted # state.halted,
                                    state.pending_ime_set)
                    /\ serviced' = (serviced /\ target \notin {"ei", "reti"})
                    /\ CASE DispatchOutcome(target) = "abort" ->
                              /\ panic' = "todo"
                              /\ registers' = r2
                              /\ state' = l.state
                              /\ log' = <<BusRead(registers.pc)>>
                              /\ pending' \in AfterIdle(pending)
                         [] DispatchOutcome(target) = "invalid" ->
                              /\ panic' = panic
                              /\ registers' = r2
                              /\ log' = <<BusRead(registers.pc)>>
                              /\ \E q \in AfterIdle(pending) :
                                   /\ pending' = q
                                   /\ state' = poll_for_interrupts(r2,
                                        [l.state EXCEPT !.executed_invalid_opcode = TRUE], q)
                         [] target = "cb" ->
                              /\ panic' = panic
                              /\ \E second \in FetchCbOpcodes :
                                 \E res \in HandlerResults(cb_target(second),
                                                           fetch_operand(r2), l.state) :
                                 \E q \in AfterHandler(cb_target(second), pending) :
                                   /\ registers' = res.registers
                                   /\ log' = <<BusRead(registers.pc), BusRead(r2.pc),
                                               BusHandler(cb_target(second))>>
                                   /\ pending' = q
                                   /\ state' = poll_for_interrupts(res.registers, res.state, q)
                         [] OTHER ->
                              /\ panic' = panic
                              /\ \E res \in HandlerResults(target, r2, l.state) :
                                 \E q \in AfterHandler(target, pending) :
                                   /\ registers' = res.registers
                                   /\ log' = <<BusRead(registers.pc), BusHandler(target)>>
                                   /\ pending' = q
                                   /\ state' = poll_for_interrupts(res.registers, res.state, q)
    /\ ei_age' = NextEiAge(call', registers')
    /\ calls' = calls + 1

(***************************************************************************)
(* The initial state (Sm83::new on a bus with nothing pending) and the     *)
(* SM83 specification.                                                     *)
(***************************************************************************)
InitSm83 ==
    /\ registers = Registers_new
    /\ state = State_new
    /\ pending = {}
    /\ panic = "none"
    /\ call = Call("new", "none", FALSE, FALSE)
    /\ log = <<>>
    /\ ei_age = 0
    /\ serviced = FALSE
    /\ calls = 0

InitDecode ==
    /\ dec_opcode = -1
    /\ dec_second = -1
    /\ dec_arms = {}
    /\ dec_outcome = "none"

InitM68k ==
    /\ m68k_opcode = -1
    /\ m68k_supervisor = FALSE
    /\ m68k_result = [kind |-> "none", detail |-> "none"]

\* SweepUnit::new
SweepUnit_new ==
    [enabled |-> FALSE, shadow_frequency |-> 0, counter |-> 0, period |-> 0,
     shift |-> 0, negate |-> FALSE, calculated_with_negate_since_trigger |-> FALSE]

\* PulseTimer::new, as far as the sweep unit sees the timer
PulseTimer_new == [frequency |-> 0]

NoPulseOp ==
    [op |-> "new", value |-> 0, expired |-> FALSE, applied |-> FALSE,
     overflowed |-> FALSE]

\* PulseChannel::new
InitPulse ==
    /\ sweep = SweepUnit_new
    /\ timer = PulseTimer_new
    /\ channel_enabled = FALSE
    /\ dac_enabled = FALSE
    /\ pulse_panic = "none"
    /\ pulse_last = NoPulseOp
    /\ pulse_ops = 0

\* the fields sample reads, in a channel fresh from PulseChannel::new
\* (DutyCycle::default, and a timer and an envelope at rest)
SampleChannel_new ==
    [duty_cycle |-> "OneEighth", phase |-> 0, volume |-> 0,
     channel_enabled |-> FALSE, dac_enabled |-> FALSE]

Unsampled == [kind |-> "unsampled", value |-> 0]

InitSample ==
    /\ smp_channel = SampleChannel_new
    /\ smp_result = Unsampled

\* A RAM is kept as the function from the indices that hold a byte other
\* than 0 to that byte: vec![0; LEN] is the empty function.
ZeroedRam == <<>>

\* Z80BankRegister::default, Signals::default
Z80BankRegister_default == [bank_number |-> 0]
Signals_default == [z80_busreq |-> FALSE, z80_reset |-> TRUE]

\* Memory::new
Memory_new ==
    [main_ram |-> ZeroedRam, audio_ram |-> ZeroedRam,
     z80_bank_register |-> Z80BankRegister_default,
     signals |-> Signals_default]

\* what the chips outside Memory answer during one operation: the word a
\* device read returns, MainBus.z80_stalled, the region and the timing mode
NoEnv == [dv |-> 0, z80_stalled |-> FALSE, version_bit |-> FALSE, pal |-> FALSE]

NoBusOp ==
    [op |-> "none", address |-> 0, data |-> 0, env |-> NoEnv,
     value |-> -1, devs |-> <<>>, abort |-> "none", via |-> <<>>]

InitBus ==
    /\ memory = Memory_new
    /\ bus_last = NoBusOp
    /\ bus_ops = 0
    /\ bank_bits = <<>>

\* no ROM has been loaded
InitRegion ==
    /\ rgn_rom = [len |-> 0, region_bytes |-> <<0, 0, 0>>]
    /\ rgn_forced = "None"
    /\ rgn_result = [op |-> "none", value |-> "None", abort |-> "none"]
\* GenesisEmulator::create, with a cartridge whose RAM is battery-backed
InitGenesis ==
    /\ master_clock_cycles = 0
    /\ gen_ticked = [m68k_cycles |-> 0, z80 |-> 0, psg |-> 0, ym2612 |-> 0]
    /\ gen_ram = [persistent |-> TRUE, empty |-> FALSE, dirty |-> FALSE,
                  unsaved_write |-> FALSE]
    /\ gen_last = [m68k_cycles |-> 0, wrote |-> FALSE, frame |-> FALSE,
                   render_ok |-> TRUE, audio_ok |-> TRUE, save_ok |-> TRUE,
                   calls |-> <<>>, result |-> "none"]
    /\ gen_ticks = 0

\* SmsGgEmulator::create: the counters are 0
InitSms ==
    /\ leftover_vdp_cycles = 0
    /\ frame_count = 0
    /\ reset_frames_remaining = 0
    /\ sms_ram = [battery |-> TRUE, dirty |-> FALSE, unsaved_write |-> FALSE]
    /\ sms_ticked = [t_cycles |-> 0, psg |-> 0, vdp |-> 0, all_ok |-> TRUE]
    /\ sms_soft = [armed |-> FALSE, completed |-> 0, latched |-> 0]
    /\ sms_last = [t_cycles |-> 0, wrote |-> FALSE, frame |-> FALSE,
                   calls |-> <<>>, result |-> "none"]
    /\ sms_ticks = 0
\* Memory::from_rom of the SNES: main RAM zeroed, the port at address 0
InitWram ==
    /\ main_ram = <<>>
    /\ wram_port_address = 0
    /\ wram_last = [op |-> "new", value |-> 0, address |-> 0, abort |-> "none"]
    /\ wram_ops = 0
Init ==
    InitSm83 /\ InitDecode /\ InitM68k /\ InitPulse /\ InitSample /\ InitBus /\ InitRegion /\ InitGenesis /\ InitSms /\ InitWram

NextSm83 ==
    \/ ExecuteFrozen
    \/ ExecuteHalted
    \/ ExecuteInterrupt
    \/ ExecuteFetch

SpecSm83 == Init /\ [][NextSm83]_vars

(***************************************************************************)
(* SM83: properties of execute_instruction.                                *)
(***************************************************************************)
LogOps == {log[i].op : i \in 1..Len(log)}

\* C1: executing an invalid opcode sets executed_invalid_opcode, and from
\* then on every execute_instruction call is exactly one bus idle that
\* changes no register, no IME and no state flag (the flag itself included),
\* whatever is pending.
C1_LockedIsTerminal ==
    [][/\ (call'.path = "fetch" /\ call'.handler = "invalid")
            => state'.executed_invalid_opcode
       /\ state.executed_invalid_opcode
            => /\ log' = <<BusIdle>>
               /\ registers' = registers
               /\ state' = state
               /\ panic' = "none"]_vars

\* C1 witness: a locked CPU has made a call while it had an interrupt to
\* handle and one pending
C1_Witness ==
    /\ call.path = "frozen"
    /\ state.executed_invalid_opcode
    /\ state.handling_interrupt
    /\ pending # {}
    /\ log = <<BusIdle>>

\* the bus sequence and the effects of a service of interrupt k made from
\* registers r
ServiceOf(k, r) ==
    /\ log' = <<BusIdle, BusIdle,
                BusWrite(wrapping_sub16(r.sp, 1), r.pc \div 256),
                BusWrite(wrapping_sub16(r.sp, 2), r.pc % 256),
                BusAck(k), BusIdle>>
    /\ registers'.sp = wrapping_sub16(r.sp, 2)
    /\ registers'.pc = interrupt_vector(k)
    /\ ~registers'.ime
    /\ ~state'.handling_interrupt
    /\ panic' = "none"

\* C2: a call made with handling_interrupt set (by a CPU that is not locked)
\* performs idle, idle, the two stack writes, one acknowledge and an idle,
\* and leaves SP - 2, PC at the vector, IME and handling_interrupt false.
C2_ServiceSequence ==
    [][(state.handling_interrupt /\ ~state.executed_invalid_opcode)
         => \E k \in InterruptType : ServiceOf(k, registers)]_vars

\* C3: after an interrupt has been serviced, IME is false until an EI or a
\* RETI is executed after that service.
C3_ImeOffAfterService == serviced => ~registers.ime

\* C4 as stated: after an EI executed with IME false, the next call fetches
\* with IME set at its start and services nothing, and the call after that
\* services the interrupt that is pending.
C4_DelayedEnable ==
    [][/\ ei_age = 1
            => /\ call'.path = "fetch" /\ call'.ime_latched
               /\ "acknowledge_interrupt" \notin {log'[i].op : i \in 1..Len(log')}
       /\ (ei_age = 2 /\ pending # {})
            => call'.path = "interrupt"]_vars

\* C4 amended: after an EI executed with IME false, IME is still false when
\* EI returns; the next call fetches with IME set at its start and services
\* nothing; the call after that runs the service routine when an interrupt is
\* pending, provided the instruction in between left IME set (it was not DI)
\* and did not lock the CPU.
C4_DelayedEnable_Amended ==
    [][/\ ei_age = 1
            => /\ ~registers.ime /\ state.pending_ime_set
               /\ ~state.handling_interrupt
               /\ call'.path = "fetch" /\ call'.ime_latched
               /\ registers'.ime = (call'.handler # "di")
               /\ "acknowledge_interrupt" \notin {log'[i].op : i \in 1..Len(log')}
       /\ (ei_age = 2 /\ pending # {} /\ registers.ime
              /\ ~state.executed_invalid_opcode)
            => /\ call'.path = "interrupt"
               /\ panic' = "none" => (serviced' /\ ~registers'.ime)]_vars

\* C4 witness: the second call after such an EI has serviced an interrupt
C4_Witness ==
    /\ ei_age = 3
    /\ call.path = "interrupt"
    /\ panic = "none"
    /\ "acknowledge_interrupt" \in LogOps

\* C5: a call on a halted CPU with handling_interrupt clear and nothing
\* pending is exactly one bus idle and changes no register and no state flag.
C5_HaltedIdle ==
    [][(state.halted /\ ~state.handling_interrupt /\ pending = {})
         => /\ log' = <<BusIdle>>
            /\ registers' = registers
            /\ state' = state
            /\ panic' = "none"]_vars

\* C5 witness: a halted CPU has made such a call
C5_Witness ==
    /\ call.path = "halted"
    /\ state.halted
    /\ log = <<BusIdle>>

\* C6: a call on a halted CPU with an interrupt pending: with IME false it
\* leaves HALT and fetches the opcode at PC, pushes nothing, acknowledges
\* nothing and jumps to no vector (halted afterwards only if the fetched
\* instruction is HALT); with IME true it leaves HALT and runs the service
\* routine without a fetch.
C6_WakeFromHalt ==
    [][(state.halted /\ ~state.handling_interrupt /\ pending # {})
         => LET ops == {log'[i].op : i \in 1..Len(log')}
            IN  /\ call'.woke
                /\ IF registers.ime
                   THEN /\ call'.path = "interrupt"
                        /\ "read" \notin ops
                        /\ ~state'.halted
                        /\ SubSeq(log', 1, 2) = <<BusIdle, BusIdle>>
                   ELSE /\ call'.path = "fetch"
                        /\ log'[1] = BusRead(registers.pc)
                        /\ "acknowledge_interrupt" \notin ops
                        /\ state'.halted = (call'.handler = "halt")
                        /\ call'.handler \notin {"reti", "ldh_imm_a"}
                             => registers'.sp = registers.sp /\ "write" \notin ops
                        /\ call'.handler = "nop"
                             => registers'.pc = wrapping_add16(registers.pc, 1)]_vars

\* C6 witness: a halted CPU with IME set was woken by an interrupt and
\* serviced it
C6_Witness ==
    /\ call.woke
    /\ call.path = "interrupt"
    /\ "acknowledge_interrupt" \in LogOps

\* a halted CPU with IME clear was woken by an interrupt and fetched
C6_WokeAndFetched ==
    /\ call.woke
    /\ call.path = "fetch"
    /\ ~registers.ime

\* C32: the assertion in execute_interrupt_service_routine holds in every
\* reachable state: whenever the service routine runs, the bus still reports
\* a pending interrupt when it is queried after the two idle cycles and the
\* two stack writes, also on a bus whose pending set can change between the
\* poll and the query (a stack write on the interrupt registers included).
C32_ServiceFindsPending ==
    [][call'.path = "interrupt" =>
          /\ panic' = "none"
          /\ "acknowledge_interrupt" \in {log'[i].op : i \in 1..Len(log')}]_vars

\* the service routine has pushed PC onto $FFFF and $FFFE, found nothing
\* pending afterwards and aborted before the acknowledge
C32_StackWriteOnIE ==
    /\ call.path = "interrupt"
    /\ panic = "expect_pending_interrupt"
    /\ log = <<BusIdle, BusIdle, BusWrite(\hFFFF, \hFF), BusWrite(\hFFFE, \hFF)>>
    /\ pending = {}
    /\ state.handling_interrupt

\* the vectors of the five interrupts
InterruptVectors == {interrupt_vector(k) : k \in InterruptType}

\* the last call ran the service routine to its end
ServiceRan == call.path = "interrupt" /\ panic = "none"

\* C33: after an interrupt service routine has run, halted is false and the
\* next execute_instruction call fetches the opcode at the interrupt vector,
\* also when HALT was executed with IME set while an interrupt was pending,
\* so that the poll at the end of HALT set handling_interrupt.
C33_FetchAtVectorAfterService ==
    [][ServiceRan =>
          /\ ~state.halted
          /\ registers.pc \in InterruptVectors
          /\ calls' = calls + 1 =>
                /\ call'.path = "fetch"
                /\ Len(log') >= 1 /\ log'[1] = BusRead(registers.pc)]_vars

\* as built: the routine leaves halted as it found it, and the call after it
\* fetches at the vector unless the CPU is still halted with nothing pending
ServiceKeepsHalted ==
    [][/\ call'.path = "interrupt" /\ ~call'.woke => state'.halted = state.halted
       /\ (ServiceRan /\ calls' = calls + 1) =>
             IF state.halted /\ highest_priority_interrupt(pending) = "none"
             THEN call'.path = "halted" /\ log' = <<BusIdle>>
                  /\ registers' = registers
             ELSE call'.path = "fetch" /\ log'[1] = BusRead(registers.pc)]_vars

\* RETI, HALT with VBlank pending, the service of VBlank, and then an idle
\* call of a CPU that is still halted with PC at the vector
C33_HaltedInHandler ==
    /\ calls = 4
    /\ call.path = "halted" /\ log = <<BusIdle>>
    /\ state.halted /\ ~state.handling_interrupt
    /\ registers.pc = \h0040 /\ ~registers.ime
    /\ serviced

(***************************************************************************)
(* SM83: the opcode dispatch taken alone, over every byte.                 *)
(***************************************************************************)
Bytes == 0..255

\* execute_opcode on a first byte other than 0xCB (one dispatch a behaviour)
DispatchOpcode ==
    /\ dec_outcome = "none"
    /\ \E opcode \in Bytes \ {\hCB} :
         /\ dec_opcode' = opcode
         /\ dec_second' = -1
         /\ dec_arms' = MatchingArms(execute_opcode_arms, opcode)
         /\ dec_outcome' = DispatchOutcome(opcode_target(opcode))
    /\ UNCHANGED dec_rest

\* execute_opcode on 0xCB: execute_cb_prefix_opcode fetches the second byte
DispatchCbOpcode ==
    /\ dec_outcome = "none"
    /\ opcode_target(\hCB) = "cb"
    /\ \E second \in Bytes :
         /\ dec_opcode' = \hCB
         /\ dec_second' = second
         /\ dec_arms' = MatchingArms(execute_cb_prefix_opcode_arms, second)
         /\ dec_outcome' = DispatchOutcome(cb_target(second))
    /\ UNCHANGED dec_rest

NextDispatch == DispatchOpcode \/ DispatchCbOpcode

SpecDispatch == Init /\ [][NextDispatch]_vars

\* C7: for every first byte, and after 0xCB every second byte, the dispatch
\* selects exactly one arm, which is an instruction handler or the
\* invalid-opcode classification, and returns without aborting.
C7_DispatchTotal ==
    dec_outcome # "none"
        => /\ Cardinality(dec_arms) = 1
           /\ dec_outcome \in {"handler", "invalid"}

(***************************************************************************)
(* 68000: decode_opcode.  It ends in one of three ways: a sub-decoder of   *)
(* arithmetic.rs, bits.rs or load.rs is called and its result returned     *)
(* (an Instruction or an Exception), Err(IllegalInstruction(opcode)) is    *)
(* returned, or a todo!() aborts.                                          *)
(***************************************************************************)
Delegated(f) == [kind |-> "delegated", detail |-> f]
Todo(what)   == [kind |-> "abort", detail |-> what]
IllegalInstruction == [kind |-> "illegal", detail |-> "IllegalInstruction(opcode)"]

\* OpSize::parse_from_opcode: the size field, bits 7-6; 0b11 is no size
OpSize_parse_from_opcode(opcode) ==
    CASE Field(opcode, 7, 6) = \h00 -> "Byte"
      [] Field(opcode, 7, 6) = \h40 -> "Word"
      [] Field(opcode, 7, 6) = \h80 -> "LongWord"
      [] OTHER -> "Err"

decode_opcode_0(opcode) ==
    LET m == Field(opcode, 11, 8)
    IN  CASE m = \h000 -> Delegated("bits::decode_ori")
          [] m = \h200 -> Delegated("bits::decode_andi")
          [] m = \h400 -> Todo("SUBI")
          [] m = \h600 -> Delegated("arithmetic::decode_addi")
          [] m = \hA00 -> Delegated("bits::decode_eori")
          [] m = \hC00 -> Todo("CMPI")
          [] m = \h800 -> Todo("BTST / BCHG / BCLR / BSET (immediate)")
          [] OTHER -> IF bit(opcode, 8)
                      THEN Todo("BTST / BCHG / BCLR / BSET (data register")
                      ELSE IllegalInstruction

decode_opcode_4(opcode) ==
    LET m == Field(opcode, 11, 6)
    IN  CASE m = \h0C0 -> Delegated("load::decode_move_from_sr")
          [] m = \h4C0 -> Delegated("load::decode_move_to_ccr")
          [] m = \h6C0 -> Delegated("load::decode_move_to_sr")
          [] m \in {\h000, \h040, \h080} -> Todo("NEGX")
          [] m \in {\h200, \h240, \h280} -> Todo("CLR")
          [] m \in {\h400, \h440, \h480} -> Todo("NEG")
          [] m \in {\h600, \h640, \h680} -> Todo("NOT")
          [] m \in {\h880, \h8C0, \hC80, \hCC0} -> Todo("EXT / MOVEM")
          [] m = \h800 -> Todo("NBCD")
          [] m = \h840 -> Todo("SWAP / PEA")
          [] m = \hAC0 -> Todo("ILLEGAL / 0TAS")
          [] m \in {\hA00, \hA40, \hA80} -> Todo("TST")
          [] m = \hE40 ->
                CASE Field(opcode, 5, 0) = \h30 -> Todo("RESET")
                  [] Field(opcode, 5, 0) = \h31 -> Todo("NOP")
                  [] Field(opcode, 5, 0) = \h32 -> Todo("STOP")
                  [] OTHER ->
                        CASE Field(opcode, 5, 3) \in {\h00, \h08} -> Todo("TRAP")
                          [] Field(opcode, 5, 3) = \h10 -> Todo("LINK")
                          [] Field(opcode, 5, 3) = \h18 -> Todo("UNLK")
                          [] Field(opcode, 5, 3) \in {\h20, \h28} ->
                                Delegated("load::decode_move_usp")
                          [] OTHER -> IllegalInstruction
          [] m = \hE80 -> Todo("JSR")
          [] m = \hEC0 -> Todo("JMP")
          [] OTHER -> Todo("LEA / CHK")

decode_opcode(opcode, supervisor_mode) ==
    LET top == Field(opcode, 15, 12)
    IN  CASE top = \h0000 -> decode_opcode_0(opcode)
          [] top \in {\h1000, \h2000, \h3000} -> Delegated("load::decode_move")
          [] top = \h4000 -> decode_opcode_4(opcode)
          [] top = \h5000 ->
                IF OpSize_parse_from_opcode(opcode) # "Err"
                THEN Delegated("arithmetic::decode_addq_subq")
                ELSE Todo("Scc / DBcc")
          [] top = \h6000 -> Todo("BRA / BSR / Bcc")
          [] top = \h7000 -> Delegated("load::decode_movq")
          [] top = \h8000 ->
                IF Field(opcode, 8, 4) = \h100 THEN Todo("SBCD")
                ELSE CASE Field(opcode, 8, 6) = \h0C0 -> Todo("DIVU")
                       [] Field(opcode, 8, 6) = \h1C0 -> Todo("DIVS")
                       [] OTHER -> Delegated("bits::decode_or")
          [] top = \h9000 -> Todo("SUB / SUBX / SUBA")
          [] top = \hB000 ->
                IF Field(opcode, 7, 6) = \hC0 THEN Todo("CMPA")
                ELSE IF bit(opcode, 8)
                     THEN IF Field(opcode, 5, 3) = \h08
                          THEN Todo("CMPM")
                          ELSE Delegated("bits::decode_eor")
                     ELSE Todo("CMP")
          [] top = \hC000 -> Delegated("bits::decode_and")
          [] top = \hD000 ->
                IF Field(opcode, 8, 4) \in {\h100, \h140, \h180}
                THEN Delegated("arithmetic::decode_addx")
                ELSE Delegated("arithmetic::decode_add")
          [] top = \hE000 -> Todo("ASd / LSd / ROXd / ROd")
          [] OTHER -> IllegalInstruction

\* The opcode words the model decodes: every word.
Words == 0..65535

\* do_execute, lines 142-146: the fetched word is decoded (one word a
\* behaviour)
Decode68k ==
    /\ m68k_result.kind = "none"
    /\ \E opcode \in Words, supervisor_mode \in BOOLEAN :
         /\ m68k_opcode' = opcode
         /\ m68k_supervisor' = supervisor_mode
         /\ m68k_result' = decode_opcode(opcode, supervisor_mode)
    /\ UNCHANGED m68k_rest

NextM68k == Decode68k

SpecM68k == Init /\ [][NextM68k]_vars

\* C8: decode_opcode maps every opcode word, in user and in supervisor mode,
\* to an Instruction (a sub-decoder's result) or to IllegalInstruction
\* without aborting, and a word whose top nibble is 0xA or 0xF to
\* IllegalInstruction.
C8_DecodeTotal ==
    m68k_result.kind # "none"
        => /\ m68k_result.kind \in {"delegated", "illegal"}
           /\ (m68k_opcode \div 4096) \in {\hA, \hF}
                => m68k_result = IllegalInstruction

(***************************************************************************)
(* Pulse channel: PulseTimer (apu/components.rs), as far as the channel    *)
(* uses its frequency.                                                     *)
(***************************************************************************)
PulseTimer_write_frequency_low(t, value) ==
    [t EXCEPT !.frequency = ((t.frequency \div 256) * 256) + value]
PulseTimer_write_frequency_high(t, value) ==
    [t EXCEPT !.frequency = ((value % 8) * 256) + (t.frequency % 256)]
PulseTimer_write_frequency(t, frequency) == [t EXCEPT !.frequency = frequency]
PulseTimer_frequency(t) == t.frequency

(***************************************************************************)
(* Pulse channel: SweepUnit.                                               *)
(***************************************************************************)
\* the largest frequency the 11-bit timer holds (the literal of lines 88-123)
MaxFrequency == 2047

\* counter_reload_value without the period-0 case
counter_reload_value_raw(sw) == sw.period

\* counter_reload_value
counter_reload_value(sw) == IF sw.period = 0 THEN 8 ELSE sw.period

\* calculate_next_frequency negating with the complement alone
calculate_next_frequency_complement(sw) ==
    LET shifted == sw.shadow_frequency \div Pow2(sw.shift)
        delta   == IF sw.negate THEN (U16 - 1) - shifted ELSE shifted
    IN  [value |-> wrapping_add16(sw.shadow_frequency, delta),
         sweep |-> IF sw.negate
                   THEN [sw EXCEPT !.calculated_with_negate_since_trigger = TRUE]
                   ELSE sw]

\* calculate_next_frequency: the candidate, in 16-bit wrapping arithmetic,
\* and the unit with the negate latch set when negate took part
calculate_next_frequency(sw) ==
    LET shifted == sw.shadow_frequency \div Pow2(sw.shift)
        delta   == IF sw.negate
                   THEN wrapping_add16((U16 - 1) - shifted, 1)
                   ELSE shifted
    IN  [value |-> wrapping_add16(sw.shadow_frequency, delta),
         sweep |-> IF sw.negate
                   THEN [sw EXCEPT !.calculated_with_negate_since_trigger = TRUE]
                   ELSE sw]

\* trigger making its overflow check on the shadow frequency it had before
\* the reload
SweepUnit_trigger_stale(sw, t, enabled) ==
    LET sw1  == [sw EXCEPT !.shadow_frequency = PulseTimer_frequency(t),
                           !.counter = counter_reload_value(sw),
                           !.enabled = (sw.period # 0 \/ sw.shift # 0),
                           !.calculated_with_negate_since_trigger = FALSE]
        calc == calculate_next_frequency(
                    [sw1 EXCEPT !.shadow_frequency = sw.shadow_frequency])
    IN  IF sw1.shift # 0
        THEN [sweep |-> [calc.sweep EXCEPT
                            !.shadow_frequency = sw1.shadow_frequency],
              channel_enabled |-> enabled /\ ~(calc.value > MaxFrequency)]
        ELSE [sweep |-> sw1, channel_enabled |-> enabled]

\* trigger that leaves the counter as it is
SweepUnit_trigger_no_reload(sw, t, enabled) ==
    LET sw1  == [sw EXCEPT !.shadow_frequency = PulseTimer_frequency(t),
                           !.enabled = (sw.period # 0 \/ sw.shift # 0),
                           !.calculated_with_negate_since_trigger = FALSE]
        calc == calculate_next_frequency(sw1)
    IN  IF sw1.shift # 0
        THEN [sweep |-> calc.sweep,
              channel_enabled |-> enabled /\ ~(calc.value > MaxFrequency)]
        ELSE [sweep |-> sw1, channel_enabled |-> enabled]

\* trigger(timer, channel_enabled): the unit and channel_enabled after
SweepUnit_trigger(sw, t, enabled) ==
    LET sw1  == [sw EXCEPT !.shadow_frequency = PulseTimer_frequency(t),
                           !.counter = counter_reload_value(sw),
                           !.enabled = (sw.period # 0 \/ sw.shift # 0),
                           !.calculated_with_negate_since_trigger = FALSE]
        calc == calculate_next_frequency(sw1)
    IN  IF sw1.shift # 0
        THEN [sweep |-> calc.sweep,
              channel_enabled |-> enabled /\ ~(calc.value > MaxFrequency)]
        ELSE [sweep |-> sw1, channel_enabled |-> enabled]

\* write_register testing the negate flag it had before the write
SweepUnit_write_register_old_negate(sw, value, enabled) ==
    LET sw1 == [sw EXCEPT !.period = (value \div 16) % 8,
                          !.negate = bit(value, 3),
                          !.shift = value % 8]
        sw2 == IF sw1.counter = 0 THEN [sw1 EXCEPT !.counter = sw1.period] ELSE sw1
    IN  [sweep |-> sw2,
         channel_enabled |->
            enabled /\ ~(sw.calculated_with_negate_since_trigger /\ ~sw.negate)]

\* write_register(value, channel_enabled)
SweepUnit_write_register(sw, value, enabled) ==
    LET sw1 == [sw EXCEPT !.period = (value \div 16) % 8,
                          !.negate = bit(value, 3),
                          !.shift = value % 8]
        sw2 == IF sw1.counter = 0 THEN [sw1 EXCEPT !.counter = sw1.period] ELSE sw1
    IN  [sweep |-> sw2,
         channel_enabled |->
            enabled /\ ~(sw2.calculated_with_negate_since_trigger /\ ~sw2.negate)]

\* clock that, when the candidate overflows, only skips the update
SweepUnit_clock_no_disable(sw, t, enabled, c) ==
    LET same(w) == [sweep |-> w, timer |-> t, channel_enabled |-> enabled,
                    expired |-> c = 0, applied |-> FALSE, overflowed |-> FALSE]
        sw1   == [sw EXCEPT !.counter = counter_reload_value(sw)]
        calc1 == calculate_next_frequency(sw1)
        sw2   == [calc1.sweep EXCEPT !.shadow_frequency = calc1.value]
        calc2 == calculate_next_frequency(sw2)
    IN  IF c # 0 THEN same([sw EXCEPT !.counter = c])
        ELSE IF sw1.period = 0 THEN same(sw1)
        ELSE IF calc1.value <= MaxFrequency /\ sw1.shift # 0
             THEN [sweep |-> calc2.sweep,
                   timer |-> PulseTimer_write_frequency(t, calc1.value),
                   channel_enabled |-> enabled /\ ~(calc2.value > MaxFrequency),
                   expired |-> TRUE, applied |-> TRUE,
                   overflowed |-> calc2.value > MaxFrequency]
             ELSE same(calc1.sweep)

\* clock applying the update whatever the shift is
SweepUnit_clock_any_shift(sw, t, enabled, c) ==
    LET same(w) == [sweep |-> w, timer |-> t, channel_enabled |-> enabled,
                    expired |-> c = 0, applied |-> FALSE, overflowed |-> FALSE]
        sw1   == [sw EXCEPT !.counter = counter_reload_value(sw)]
        calc1 == calculate_next_frequency(sw1)
        sw2   == [calc1.sweep EXCEPT !.shadow_frequency = calc1.value]
        calc2 == calculate_next_frequency(sw2)
    IN  IF c # 0 THEN same([sw EXCEPT !.counter = c])
        ELSE IF sw1.period = 0 THEN same(sw1)
        ELSE IF calc1.value <= MaxFrequency
             THEN [sweep |-> calc2.sweep,
                   timer |-> PulseTimer_write_frequency(t, calc1.value),
                   channel_enabled |-> enabled /\ ~(calc2.value > MaxFrequency),
                   expired |-> TRUE, applied |-> TRUE,
                   overflowed |-> calc2.value > MaxFrequency]
             ELSE [same(calc1.sweep) EXCEPT !.channel_enabled = FALSE,
                                            !.overflowed = TRUE]

\* clock without the second overflow check after an update
SweepUnit_clock_one_check(sw, t, enabled, c) ==
    LET same(w) == [sweep |-> w, timer |-> t, channel_enabled |-> enabled,
                    expired |-> c = 0, applied |-> FALSE, overflowed |-> FALSE]
        sw1   == [sw EXCEPT !.counter = counter_reload_value(sw)]
        calc1 == calculate_next_frequency(sw1)
        sw2   == [calc1.sweep EXCEPT !.shadow_frequency = calc1.value]
    IN  IF c # 0 THEN same([sw EXCEPT !.counter = c])
        ELSE IF sw1.period = 0 THEN same(sw1)
        ELSE IF calc1.value <= MaxFrequency /\ sw1.shift # 0
             THEN [sweep |-> sw2,
                   timer |-> PulseTimer_write_frequency(t, calc1.value),
                   channel_enabled |-> enabled,
                   expired |-> TRUE, applied |-> TRUE, overflowed |-> FALSE]
             ELSE IF calc1.value > MaxFrequency
                  THEN [same(calc1.sweep) EXCEPT !.channel_enabled = FALSE,
                                                 !.overflowed = TRUE]
                  ELSE same(calc1.sweep)

\* clock(timer, channel_enabled), past "counter -= 1" (c is the counter after
\* it): the unit, the timer and channel_enabled after, and what happened
SweepUnit_clock(sw, t, enabled, c) ==
    LET same(w) == [sweep |-> w, timer |-> t, channel_enabled |-> enabled,
                    expired |-> c = 0, applied |-> FALSE, overflowed |-> FALSE]
        sw1   == [sw EXCEPT !.counter = counter_reload_value(sw)]
        calc1 == calculate_next_frequency(sw1)
        sw2   == [calc1.sweep EXCEPT !.shadow_frequency = calc1.value]
        calc2 == calculate_next_frequency(sw2)
    IN  IF c # 0 THEN same([sw EXCEPT !.counter = c])
        ELSE IF sw1.period = 0 THEN same(sw1)
        ELSE IF calc1.value <= MaxFrequency /\ sw1.shift # 0
             THEN [sweep |-> calc2.sweep,
                   timer |-> PulseTimer_write_frequency(t, calc1.value),
                   channel_enabled |-> enabled /\ ~(calc2.value > MaxFrequency),
                   expired |-> TRUE, applied |-> TRUE,
                   overflowed |-> calc2.value > MaxFrequency]
             ELSE IF calc1.value > MaxFrequency
                  THEN [same(calc1.sweep) EXCEPT !.channel_enabled = FALSE,
                                                 !.overflowed = TRUE]
                  ELSE same(calc1.sweep)

(***************************************************************************)
(* Pulse channel: bounds of the model.                                     *)
(***************************************************************************)
\* operations on the channel per behaviour
MaxPulseOps == 5

\* the bytes written to NR10: period 0 or 1, negate off or on, shift 0, 1 or 7
Nr10Values == {(p * 16) + (n * 8) + s : p \in {0, 1}, n \in {0, 1}, s \in {0, 1, 7}}
\* the bytes written to NR12: DAC off (the upper five bits are 0), DAC on
Nr12Values == {\h00, \h07, \h08, \hF0}
\* the bytes written to NR13
Nr13Values == {\hFF}
\* the bytes written to NR14: frequency bits 1, 4 or 7 with and without the
\* trigger (bit 7), and the length enable (bit 6) alone
Nr14Values == {hi + t : hi \in {1, 4, 7}, t \in {\h00, \h80}} \cup {\h40}

(***************************************************************************)
(* Pulse channel: the operations of PulseChannel.                          *)
(***************************************************************************)
CanPulse == pulse_panic = "none" /\ pulse_ops < MaxPulseOps

PulseOp(op, value) ==
    [op |-> op, value |-> value, expired |-> FALSE, applied |-> FALSE,
     overflowed |-> FALSE]

\* write_register_0 (NR10)
write_register_0 ==
    /\ CanPulse
    /\ \E value \in Nr10Values :
         LET w == SweepUnit_write_register(sweep, value, channel_enabled)
         IN  /\ sweep' = w.sweep
             /\ channel_enabled' = w.channel_enabled
             /\ pulse_last' = PulseOp("write_register_0", value)
    /\ pulse_ops' = pulse_ops + 1
    /\ UNCHANGED <<timer, dac_enabled, pulse_panic>>
    /\ UNCHANGED pulse_rest

\* write_register_2 that sets the DAC and leaves the channel alone
write_register_2_dac_only ==
    /\ CanPulse
    /\ \E value \in Nr12Values :
         /\ dac_enabled' = ((value \div 8) # 0)
         /\ pulse_last' = PulseOp("write_register_2", value)
    /\ pulse_ops' = pulse_ops + 1
    /\ UNCHANGED <<sweep, timer, channel_enabled, pulse_panic>>
    /\ UNCHANGED pulse_rest

\* write_register_2 (NR12/NR22)
write_register_2 ==
    /\ CanPulse
    /\ \E value \in Nr12Values :
         /\ dac_enabled' = ((value \div 8) # 0)
         /\ channel_enabled' = (channel_enabled /\ dac_enabled')
         /\ pulse_last' = PulseOp("write_register_2", value)
    /\ pulse_ops' = pulse_ops + 1
    /\ UNCHANGED <<sweep, timer, pulse_panic>>
    /\ UNCHANGED pulse_rest

\* write_register_3 (NR13/NR23)
write_register_3 ==
    /\ CanPulse
    /\ \E value \in Nr13Values :
         /\ timer' = PulseTimer_write_frequency_low(timer, value)
         /\ pulse_last' = PulseOp("write_register_3", value)
    /\ pulse_ops' = pulse_ops + 1
    /\ UNCHANGED <<sweep, channel_enabled, dac_enabled, pulse_panic>>
    /\ UNCHANGED pulse_rest

\* write_register_4 (NR14/NR24).  length_counter.set_enabled can disable the
\* channel when the write enables the length counter (length_expired).
write_register_4 ==
    /\ CanPulse
    /\ \E value \in Nr14Values, length_expired \in BOOLEAN :
         LET t1 == PulseTimer_write_frequency_high(timer, value)
             e1 == channel_enabled /\ ~(bit(value, 6) /\ length_expired)
             tr == SweepUnit_trigger(sweep, t1, TRUE)
         IN  /\ length_expired => bit(value, 6)
             /\ timer' = t1
             /\ IF bit(value, 7)
                THEN /\ sweep' = tr.sweep
                     /\ channel_enabled' = (tr.channel_enabled /\ dac_enabled)
                ELSE /\ sweep' = sweep
                     /\ channel_enabled' = e1
             /\ pulse_last' = PulseOp("write_register_4", value)
    /\ pulse_ops' = pulse_ops + 1
    /\ UNCHANGED <<dac_enabled, pulse_panic>>
    /\ UNCHANGED pulse_rest

\* clock_sweep.  "self.counter -= 1" on a counter of 0 aborts in a build
\* with overflow checks and wraps to 255 in one without.
clock_sweep ==
    /\ CanPulse
    /\ pulse_ops' = pulse_ops + 1
    /\ UNCHANGED <<dac_enabled>>
    /\ UNCHANGED pulse_rest
    /\ IF ~sweep.enabled
       THEN /\ pulse_last' = PulseOp("clock_sweep", 0)
            /\ UNCHANGED <<sweep, timer, channel_enabled, pulse_panic>>
       ELSE \E checked \in BOOLEAN :
              IF sweep.counter = 0 /\ checked
              THEN /\ pulse_panic' = "attempt to subtract with overflow"
                   /\ pulse_last' = PulseOp("clock_sweep", 0)
                   /\ UNCHANGED <<sweep, timer, channel_enabled>>
              ELSE LET c == (sweep.counter + U8 - 1) % U8
                       r == SweepUnit_clock(sweep, timer, channel_enabled, c)
                   IN  /\ sweep' = r.sweep
                       /\ timer' = r.timer
                       /\ channel_enabled' = r.channel_enabled
                       /\ pulse_last' = [op |-> "clock_sweep", value |-> 0,
                                         expired |-> r.expired,
                                         applied |-> r.applied,
                                         overflowed |-> r.overflowed]
                       /\ pulse_panic' = pulse_panic

\* clock_length_counter: the length counter disables the channel when it
\* expires
clock_length_counter ==
    /\ CanPulse
    /\ \E length_expired \in BOOLEAN :
         channel_enabled' = (channel_enabled /\ ~length_expired)
    /\ pulse_last' = PulseOp("clock_length_counter", 0)
    /\ pulse_ops' = pulse_ops + 1
    /\ UNCHANGED <<sweep, timer, dac_enabled, pulse_panic>>
    /\ UNCHANGED pulse_rest

NextPulse ==
    \/ write_register_0
    \/ write_register_2
    \/ write_register_3
    \/ write_register_4
    \/ clock_sweep
    \/ clock_length_counter

SpecPulse == Init /\ [][NextPulse]_vars

(***************************************************************************)
(* Pulse channel: properties of the sweep unit.                            *)
(***************************************************************************)
\* shadow +/- (shadow >> shift) for a shadow frequency f, in the integers
SweepCandidate(f, shift, negate) ==
    IF negate THEN f - (f \div Pow2(shift)) ELSE f + (f \div Pow2(shift))

TriggerWritten == pulse_last.op = "write_register_4" /\ bit(pulse_last.value, 7)

\* C9 as stated: after a trigger write the shadow frequency is the channel's
\* frequency as that write left it, the sweep counter is reloaded, and the
\* channel is disabled if shadow +/- (shadow >> shift) exceeds 2047, for
\* every period, shift and negate.
C9_TriggerOverflowCheck ==
    TriggerWritten
        => /\ sweep.shadow_frequency = timer.frequency
           /\ timer.frequency \div 256 = pulse_last.value % 8
           /\ sweep.counter = counter_reload_value(sweep)
           /\ SweepCandidate(sweep.shadow_frequency, sweep.shift, sweep.negate) > 2047
                => ~channel_enabled

\* C9 amended: the same, with the overflow check made only when the shift is
\* not 0; with a shift of 0 the trigger leaves the channel enabled (if the
\* DAC is on) whatever the frequency.
C9_TriggerOverflowCheck_Amended ==
    TriggerWritten
        => /\ sweep.shadow_frequency = timer.frequency
           /\ timer.frequency \div 256 = pulse_last.value % 8
           /\ sweep.counter = counter_reload_value(sweep)
           /\ channel_enabled =
                (/\ dac_enabled
                 /\ ~(/\ sweep.shift # 0
                      /\ SweepCandidate(sweep.shadow_frequency, sweep.shift,
                                        sweep.negate) > 2047))

\* C9 witness: a trigger write with the DAC on and a shift other than 0 has
\* disabled the channel on overflow
C9_Witness ==
    /\ TriggerWritten
    /\ dac_enabled
    /\ sweep.shift # 0
    /\ SweepCandidate(sweep.shadow_frequency, sweep.shift, sweep.negate) > 2047
    /\ ~channel_enabled

\* C10: a sweep clock on an enabled unit whose counter expires, with period
\* and shift other than 0 and a candidate of at most 2047, sets the shadow
\* frequency and the timer frequency to the candidate and disables the
\* channel exactly when the second candidate, computed from the new shadow
\* frequency, exceeds 2047; the second candidate is stored nowhere.
C10_SweepUpdate ==
    [][LET cand   == SweepCandidate(sweep.shadow_frequency, sweep.shift,
                                    sweep.negate)
           second == SweepCandidate(cand, sweep.shift, sweep.negate)
       IN  (/\ pulse_last'.op = "clock_sweep" /\ pulse_ops' = pulse_ops + 1
            /\ sweep.enabled /\ sweep.counter = 1
            /\ sweep.period # 0 /\ sweep.shift # 0
            /\ cand <= 2047)
             => /\ pulse_last'.applied
                /\ sweep'.shadow_frequency = cand
                /\ timer'.frequency = cand
                /\ sweep'.counter = sweep.period
                /\ channel_enabled' = (channel_enabled /\ second <= 2047)
                /\ pulse_last'.overflowed = (second > 2047)
                /\ pulse_panic' = "none"]_vars

\* C10 witness: a sweep clock has applied an update whose second candidate
\* overflowed, and the shadow and timer frequencies hold the first candidate
C10_Witness ==
    /\ pulse_last.op = "clock_sweep"
    /\ pulse_last.applied /\ pulse_last.overflowed
    /\ dac_enabled /\ ~channel_enabled
    /\ sweep.shadow_frequency = timer.frequency
    /\ sweep.shadow_frequency <= 2047
    /\ SweepCandidate(sweep.shadow_frequency, sweep.shift, sweep.negate) > 2047

\* a step that is one sweep clock
SweepClocked == pulse_last'.op = "clock_sweep" /\ pulse_ops' = pulse_ops + 1

\* C11 as stated: on an enabled sweep unit whose candidate
\* F +/- (F >> S) exceeds 2047, the channel is disabled after the next
\* sweep clock.
C11_ClockOverflowDisables ==
    [][(/\ SweepClocked
        /\ sweep.enabled
        /\ SweepCandidate(sweep.shadow_frequency, sweep.shift, sweep.negate) > 2047)
         => ~channel_enabled']_vars

\* C11 amended: the same for the sweep clock at which the counter expires
\* (counter 1 before the clock) with a period other than 0; that clock
\* changes neither the shadow frequency nor the timer frequency.
C11_ClockOverflowDisables_Amended ==
    [][(/\ SweepClocked
        /\ sweep.enabled /\ sweep.counter = 1 /\ sweep.period # 0
        /\ SweepCandidate(sweep.shadow_frequency, sweep.shift, sweep.negate) > 2047)
         => /\ ~channel_enabled'
            /\ pulse_last'.overflowed /\ ~pulse_last'.applied
            /\ sweep'.shadow_frequency = sweep.shadow_frequency
            /\ timer' = timer]_vars

\* C11 witness: a sweep clock found the first candidate above 2047 and
\* disabled the channel without an update
C11_Witness ==
    /\ pulse_last.op = "clock_sweep"
    /\ pulse_last.expired /\ pulse_last.overflowed /\ ~pulse_last.applied
    /\ dac_enabled /\ ~channel_enabled
    /\ SweepCandidate(sweep.shadow_frequency, sweep.shift, sweep.negate) > 2047

\* a step that is one write to NR10
Nr10Written == pulse_last'.op = "write_register_0" /\ pulse_ops' = pulse_ops + 1

\* C12: a write to NR10 leaves the channel enabled exactly if it was enabled
\* and not (written negate bit 0 and a frequency calculation made with negate
\* set since the last trigger); the latch that records such a calculation is
\* cleared by a trigger before the trigger's own calculation (made when the
\* shift is not 0), set by a sweep clock that calculates with negate set, and
\* left alone by the write itself.
C12_NegateLatch ==
    [][/\ Nr10Written
            => /\ channel_enabled' =
                    (/\ channel_enabled
                     /\ ~(/\ sweep.calculated_with_negate_since_trigger
                          /\ ~bit(pulse_last'.value, 3)))
               /\ sweep'.calculated_with_negate_since_trigger
                    = sweep.calculated_with_negate_since_trigger
               /\ sweep'.negate = bit(pulse_last'.value, 3)
       /\ (/\ pulse_last'.op = "write_register_4" /\ pulse_ops' = pulse_ops + 1
           /\ bit(pulse_last'.value, 7))
            => sweep'.calculated_with_negate_since_trigger
                 = (sweep.shift # 0 /\ sweep.negate)
       /\ (SweepClocked /\ pulse_panic' = "none")
            => sweep'.calculated_with_negate_since_trigger
                 = (\/ sweep.calculated_with_negate_since_trigger
                    \/ /\ sweep.enabled /\ sweep.counter = 1
                       /\ sweep.period # 0 /\ sweep.negate)]_vars

\* C12 witness: a write to NR10 with negate bit 0 has disabled a channel whose
\* DAC is on, after a calculation made with negate set
C12_Witness ==
    /\ pulse_last.op = "write_register_0"
    /\ ~bit(pulse_last.value, 3)
    /\ sweep.calculated_with_negate_since_trigger
    /\ dac_enabled /\ ~channel_enabled
    /\ sweep.enabled

\* C13: a sweep clock at which the counter expires with a shift of 0 reloads
\* the counter and changes neither the shadow frequency nor the timer.
C13_ShiftZeroNoUpdate ==
    [][(/\ SweepClocked
        /\ sweep.enabled /\ sweep.counter = 1 /\ sweep.shift = 0)
         => /\ sweep'.counter = counter_reload_value(sweep)
            /\ sweep'.shadow_frequency = sweep.shadow_frequency
            /\ timer' = timer
            /\ pulse_last'.expired /\ ~pulse_last'.applied]_vars

\* C13 witness: the counter expired with a shift of 0 and a candidate that
\* would have fitted
C13_Witness ==
    /\ pulse_last.op = "clock_sweep"
    /\ pulse_last.expired /\ ~pulse_last.applied
    /\ sweep.shift = 0 /\ sweep.period # 0
    /\ sweep.shadow_frequency # 0
    /\ SweepCandidate(sweep.shadow_frequency, sweep.shift, sweep.negate) <= 2047
    /\ sweep.counter = sweep.period

\* C29: when the sweep counter expires while the period is 0, the counter is
\* reloaded to 8 and no frequency calculation, frequency update or overflow
\* disable takes place on that clock; for a non-zero period the counter is
\* reloaded to the period.
C29_PeriodZeroReload ==
    [][(/\ SweepClocked
        /\ sweep.enabled /\ sweep.counter = 1)
         => /\ pulse_last'.expired
            /\ sweep.period = 0 =>
                  /\ sweep' = [sweep EXCEPT !.counter = 8]
                  /\ timer' = timer
                  /\ channel_enabled' = channel_enabled
                  /\ ~pulse_last'.applied /\ ~pulse_last'.overflowed
            /\ sweep.period # 0 => sweep'.counter = sweep.period]_vars

\* C29 witness: the counter has expired with period 0 on a sounding channel
\* whose candidate with negate would have been calculated and applied
C29_Witness ==
    /\ pulse_last.op = "clock_sweep"
    /\ pulse_last.expired
    /\ sweep.period = 0 /\ sweep.counter = 8
    /\ sweep.shift # 0 /\ sweep.negate
    /\ ~sweep.calculated_with_negate_since_trigger
    /\ sweep.shadow_frequency # 0
    /\ channel_enabled

(***************************************************************************)
(* PulseChannel::sample, over the channel states it can be called in.      *)
(***************************************************************************)
DutyCycle == {"OneEighth", "OneFourth", "OneHalf", "ThreeFourths"}

\* DutyCycle::waveform_step
waveform_step(duty, phase) ==
    CASE duty = "OneEighth"    -> bit(\h80, phase)
      [] duty = "OneFourth"    -> bit(\h81, phase)
      [] duty = "OneHalf"      -> bit(\hE1, phase)
      [] duty = "ThreeFourths" -> bit(\h7E, phase)

None == [kind |-> "None", value |-> 0]
Some(v) == [kind |-> "Some", value |-> v]

\* sample testing channel_enabled before dac_enabled
sample_enabled_first(ch) ==
    IF ~ch.channel_enabled THEN Some(0)
    ELSE IF ~ch.dac_enabled THEN None
    ELSE Some(((IF waveform_step(ch.duty_cycle, ch.phase) THEN 1 ELSE 0)
                 * ch.volume) % U8)

\* PulseChannel::sample
sample(ch) ==
    IF ~ch.dac_enabled THEN None
    ELSE IF ~ch.channel_enabled THEN Some(0)
    ELSE Some(((IF waveform_step(ch.duty_cycle, ch.phase) THEN 1 ELSE 0)
                 * ch.volume) % U8)

\* the timer's phase (a step of the 8-step waveform) and the envelope's
\* volume (4 bits)
Phases == 0..7
Volumes == 0..15

\* The channel states sample is called in: channel_enabled implies dac_enabled
\* (write_register_2 and write_register_4 keep it so).
SampleChannels ==
    {ch \in [duty_cycle : DutyCycle, phase : Phases, volume : Volumes,
             channel_enabled : BOOLEAN, dac_enabled : BOOLEAN] :
        ch.channel_enabled => ch.dac_enabled}

InitSampleInputs ==
    /\ InitSm83 /\ InitDecode /\ InitM68k /\ InitPulse /\ InitBus /\ InitRegion /\ InitGenesis /\ InitSms /\ InitWram
    /\ smp_channel \in SampleChannels
    /\ smp_result = Unsampled

\* one call of sample (&self: the channel is left as it is)
Sample ==
    /\ smp_result = Unsampled
    /\ smp_result' = sample(smp_channel)
    /\ UNCHANGED smp_channel
    /\ UNCHANGED smp_rest

NextSample == Sample

SpecSample == InitSampleInputs /\ [][NextSample]_vars

\* the phases at which each duty waveform is high (the set bits of its
\* pattern)
HighPhases(duty) ==
    CASE duty = "OneEighth"    -> {7}
      [] duty = "OneFourth"    -> {0, 7}
      [] duty = "OneHalf"      -> {0, 5, 6, 7}
      [] duty = "ThreeFourths" -> {1, 2, 3, 4, 5, 6}

\* C14: sample returns None exactly when the DAC is off; with the DAC on it
\* returns Some(0) for a disabled channel and otherwise Some(v), v being the
\* envelope volume when the duty waveform is high at the timer phase and 0
\* when it is low.
C14_Sample ==
    smp_result # Unsampled
        => /\ (smp_result = None) <=> ~smp_channel.dac_enabled
           /\ (smp_channel.dac_enabled /\ ~smp_channel.channel_enabled)
                => smp_result = Some(0)
           /\ (smp_channel.dac_enabled /\ smp_channel.channel_enabled)
                => smp_result =
                     Some(IF smp_channel.phase \in HighPhases(smp_channel.duty_cycle)
                          THEN smp_channel.volume ELSE 0)

\* C14 witness: sample returned the full volume of an enabled channel
C14_Witness ==
    /\ smp_result = Some(15)
    /\ smp_channel.channel_enabled
    /\ smp_channel.duty_cycle = "OneHalf"
    /\ smp_channel.phase = 5

\* C34: after any sequence of NR10 writes, trigger writes and sweep clocks
\* from SweepUnit::new, whenever the sweep unit is enabled its counter is
\* between 1 and 8, so the decrement in SweepUnit::clock never underflows.
C34_EnabledCounterInRange ==
    /\ sweep.enabled => sweep.counter \in 1..8
    /\ pulse_panic = "none"

\* C34 witness: the enabled unit's counter has expired on a clock and was
\* reloaded to the period, 1
C34_Witness ==
    /\ sweep.enabled
    /\ pulse_last.op = "clock_sweep" /\ pulse_last.expired
    /\ sweep.period = 1 /\ sweep.counter = 1

\* before the first trigger the counter of the disabled unit can be 0
DisabledCounterZero == ~sweep.enabled /\ sweep.counter = 0 /\ pulse_ops > 0

\* the candidate of the unit's shadow frequency with negate set and the
\* given shift, as calculate_next_frequency computes it
NegateCandidate(shift) ==
    calculate_next_frequency([sweep EXCEPT !.negate = TRUE, !.shift = shift]).value

\* a step that is a trigger write to NR14
Triggered ==
    /\ pulse_ops' = pulse_ops + 1
    /\ pulse_last'.op = "write_register_4" /\ bit(pulse_last'.value, 7)

\* C35: the shadow frequency never exceeds 2047, and a calculation made with
\* negate set yields shadow - (shadow >> shift), within 0..2047 and without
\* 16-bit wrap-around, for every shift 0..7; so in negate mode neither a
\* sweep clock nor a trigger disables the channel through the overflow check.
C35_NegateNeverOverflows ==
    /\ [](/\ sweep.shadow_frequency <= MaxFrequency
          /\ \A shift \in 0..7 :
                /\ NegateCandidate(shift) =
                      sweep.shadow_frequency - (sweep.shadow_frequency \div Pow2(shift))
                /\ NegateCandidate(shift) \in 0..MaxFrequency)
    /\ [][((SweepClocked /\ sweep.negate) =>
              (~pulse_last'.overflowed /\ channel_enabled' = channel_enabled))
          /\ ((Triggered /\ sweep.negate /\ dac_enabled) => channel_enabled')]_vars

\* C35 witness: with negate set a sweep clock has lowered the frequency
\* from 1792 to 896 and the channel is still enabled
C35_Witness ==
    /\ pulse_last.op = "clock_sweep" /\ pulse_last.applied
    /\ sweep.negate /\ sweep.shift = 1
    /\ sweep.shadow_frequency = 896 /\ timer.frequency = 896
    /\ channel_enabled

\* without negate the same trigger can disable the channel
TriggerOverflowsWithoutNegate ==
    /\ pulse_last.op = "write_register_4" /\ bit(pulse_last.value, 7)
    /\ ~sweep.negate /\ sweep.shift = 1 /\ sweep.shadow_frequency = 1792
    /\ dac_enabled /\ ~channel_enabled

\* a step that is a write to NR12
Nr12Written == pulse_last'.op = "write_register_2" /\ pulse_ops' = pulse_ops + 1

\* C36: after any sequence of register writes, triggers and clock events
\* channel_enabled implies dac_enabled: a trigger while the DAC is off
\* leaves the channel disabled, and an NRx2 write whose upper five bits are
\* zero turns the DAC off and disables the channel in the same write.
C36_EnabledImpliesDac ==
    /\ [](channel_enabled => dac_enabled)
    /\ [][((Triggered /\ ~dac_enabled) => ~channel_enabled')
          /\ ((Nr12Written /\ pulse_last'.value \div 8 = 0) =>
                (~dac_enabled' /\ ~channel_enabled'))
          /\ ((Nr12Written /\ pulse_last'.value \div 8 # 0) =>
                (dac_enabled' /\ channel_enabled' = channel_enabled))]_vars

\* C36 witness: a trigger with the DAC off has started the sweep unit and
\* left the channel disabled
C36_Witness ==
    /\ pulse_last.op = "write_register_4" /\ bit(pulse_last.value, 7)
    /\ ~dac_enabled /\ ~channel_enabled
    /\ sweep.enabled /\ sweep.shadow_frequency = 1792

\* the channel is enabled, by a trigger with the DAC on
ChannelEnabledByTrigger ==
    /\ pulse_last.op = "write_register_4" /\ bit(pulse_last.value, 7)
    /\ dac_enabled /\ channel_enabled

\* NR12 = 0x07 has turned the DAC off
DacOffByLowBits ==
    /\ pulse_last.op = "write_register_2" /\ pulse_last.value = 7
    /\ ~dac_enabled /\ ~channel_enabled /\ sweep.enabled

\* the channel is never enabled with its DAC off
PulseEnabledImpliesDac == channel_enabled => dac_enabled

(***************************************************************************)
(* Genesis: Memory and the chips behind MainBus.  The VDP, the PSG, the    *)
(* YM2612, the controller ports and the cartridge's ROM and external       *)
(* memory are other files: a call to one of them is recorded (devs), and   *)
(* what a read of one returns is an input of the operation (e.dv).         *)
(***************************************************************************)
ADDRESS_MASK == \hFFFFFF
AUDIO_RAM_LEN == 8192

InRange(x, lo, hi) == lo <= x /\ x <= hi

\* ram[i], and ram with ram[i] = v
Peek(ram, i) == IF i \in DOMAIN ram THEN ram[i] ELSE 0
Poke(ram, i, v) ==
    [j \in (DOMAIN ram \cup {i}) \ (IF v = 0 THEN {i} ELSE {})
        |-> IF j = i THEN v ELSE ram[j]]

\* u16::from_be_bytes / from_le_bytes
from_be_bytes(hi, lo) == (hi * 256) + lo
from_le_bytes(lo, hi) == (hi * 256) + lo

\* Z80BankRegister::map_to_68k_address; bank_number << 15 keeps the low 17
\* bits of a u32 and has its own low 15 bits clear, so the bitwise or is a sum
map_to_68k_address_unmasked(bank, z80_address) ==
    ((bank.bank_number % 131072) * 32768) + z80_address
map_to_68k_address(bank, z80_address) ==
    ((bank.bank_number % 131072) * 32768) + (z80_address % 32768)

\* write_bit shifting left and putting the bit in at bit 0
write_bit_at_bit_0(bank, b) ==
    [bank EXCEPT !.bank_number = ((bank.bank_number * 2) % 512) + (IF b THEN 1 ELSE 0)]

\* Z80BankRegister::write_bit, BITS = 9
write_bit(bank, b) ==
    LET shifted == bank.bank_number \div 2
    IN  [bank EXCEPT !.bank_number =
            IF b /\ ~bit(shifted, 8) THEN shifted + 256 ELSE shifted]

\* a call to another chip
Dev(chip, op, arg) == [chip |-> chip, op |-> op, arg |-> arg]

\* how an operation ends: it returns (a read its value, a write -1), or it
\* aborts at a todo!(), an unreachable!() or a panic!()
Ret(mem, value, devs) ==
    [mem |-> mem, value |-> value, devs |-> devs, abort |-> "none", via |-> <<>>]
Aborted(mem, devs, what) ==
    [mem |-> mem, value |-> -1, devs |-> devs, abort |-> what, via |-> <<>>]

\* the outcome of a call that one bus implementation made to the other, at
\* that address
Crossed(bus, address, o) ==
    [o EXCEPT !.via = <<[bus |-> bus, address |-> address]>> \o @]

\* the Z80 address of a 68000 address in the Z80 area, as 16 bits of it
z80_area_address_16_bits(address) == address % 65536

\* (address & 0x7FFF) as u16
z80_area_address(address) == address % 32768

\* Cartridge::read_byte, read_word, write_byte, write_word: the ROM and the
\* external memory decide
Cartridge_read_byte(mem, address, e) ==
    Ret(mem, e.dv % 256, <<Dev("cartridge", "read_byte", address)>>)
Cartridge_read_word(mem, address, e) ==
    Ret(mem, e.dv, <<Dev("cartridge", "read_word", address)>>)
Cartridge_write_byte(mem, address, value) ==
    Ret(mem, -1, <<Dev("cartridge", "write_byte", <<address, value>>)>>)
Cartridge_write_word(mem, address, value) ==
    Ret(mem, -1, <<Dev("cartridge", "write_word", <<address, value>>)>>)

\* MainBus::read_io_register
read_io_register(mem, address, e) ==
    CASE address \in {\hA10000, \hA10001} ->
            Ret(mem, \h20 + (IF e.version_bit THEN 128 ELSE 0)
                         + (IF e.pal THEN 64 ELSE 0), <<>>)
      [] address \in {\hA10002, \hA10003} ->
            Ret(mem, e.dv % 256, <<Dev("input", "read_p1_data", 0)>>)
      [] address \in {\hA10004, \hA10005} ->
            Ret(mem, e.dv % 256, <<Dev("input", "read_p2_data", 0)>>)
      [] address \in {\hA10008, \hA10009} ->
            Ret(mem, e.dv % 256, <<Dev("input", "read_p1_ctrl", 0)>>)
      [] address \in {\hA1000A, \hA1000B} ->
            Ret(mem, e.dv % 256, <<Dev("input", "read_p2_ctrl", 0)>>)
      [] address \in {\hA1000E, \hA1000F, \hA10014, \hA10015, \hA1001A, \hA1001B} ->
            Ret(mem, \hFF, <<>>)
      [] OTHER -> Ret(mem, \h00, <<>>)

\* MainBus::write_io_register
write_io_register(mem, address, value) ==
    CASE address \in {\hA10002, \hA10003} ->
            Ret(mem, -1, <<Dev("input", "write_p1_data", value)>>)
      [] address \in {\hA10004, \hA10005} ->
            Ret(mem, -1, <<Dev("input", "write_p2_data", value)>>)
      [] address \in {\hA10008, \hA10009} ->
            Ret(mem, -1, <<Dev("input", "write_p1_ctrl", value)>>)
      [] address \in {\hA1000A, \hA1000B} ->
            Ret(mem, -1, <<Dev("input", "write_p2_ctrl", value)>>)
      [] OTHER -> Ret(mem, -1, <<>>)

\* MainBus::read_vdp_byte
read_vdp_byte(mem, address, e) ==
    LET k == address % 32
    IN  CASE k \in {\h00, \h02} -> Ret(mem, e.dv \div 256, <<Dev("vdp", "read_data", 0)>>)
          [] k \in {\h01, \h03} -> Ret(mem, e.dv % 256, <<Dev("vdp", "read_data", 0)>>)
          [] k \in {\h04, \h06} -> Ret(mem, e.dv \div 256, <<Dev("vdp", "read_status", 0)>>)
          [] k \in {\h05, \h07} -> Ret(mem, e.dv % 256, <<Dev("vdp", "read_status", 0)>>)
          [] k \in {\h08, \h0A} -> Ret(mem, e.dv \div 256, <<Dev("vdp", "hv_counter", 0)>>)
          [] k \in {\h09, \h0B} -> Ret(mem, e.dv % 256, <<Dev("vdp", "hv_counter", 0)>>)
          [] InRange(k, \h10, \h1F) -> Ret(mem, \hFF, <<>>)
          [] OTHER -> Aborted(mem, <<>>, "unreachable")

\* MainBus::write_vdp_byte
write_vdp_byte(mem, address, value) ==
    LET k == address % 32
        vdp_word == from_le_bytes(value, value)
    IN  CASE InRange(k, \h00, \h03) -> Ret(mem, -1, <<Dev("vdp", "write_data", vdp_word)>>)
          [] InRange(k, \h04, \h07) -> Ret(mem, -1, <<Dev("vdp", "write_control", vdp_word)>>)
          [] k \in {\h11, \h13, \h15, \h17} -> Ret(mem, -1, <<Dev("psg", "write", value)>>)
          [] k \in {\h10, \h12, \h14, \h16} \/ InRange(k, \h18, \h1F) -> Ret(mem, -1, <<>>)
          [] OTHER -> Aborted(mem, <<>>, "unreachable")

\* let address = address & 0x1FFF: the Z80 RAM is mirrored at $2000-$3FFF
audio_ram_address_unmasked(address) == address
audio_ram_address(address) == address % (\h1FFF + 1)

RECURSIVE read_byte(_, _, _), read_memory(_, _, _)

\* <MainBus as m68000_emu::BusInterface>::read_byte
read_byte(mem, address32, e) ==
    LET address == address32 % (ADDRESS_MASK + 1)
    IN  CASE InRange(address, \h000000, \h3FFFFF) -> Cartridge_read_byte(mem, address, e)
          [] InRange(address, \hA00000, \hA0FFFF) ->
                Crossed("z80", z80_area_address(address),
                        read_memory(mem, z80_area_address(address), e))
          [] InRange(address, \hA10000, \hA1001F) -> read_io_register(mem, address, e)
          [] InRange(address, \hA11100, \hA11101) ->
                Ret(mem, IF e.z80_stalled THEN 0 ELSE 1, <<>>)
          [] InRange(address, \hA13000, \hA130FF) -> Aborted(mem, <<>>, "todo")
          [] InRange(address, \hC00000, \hC0001F) -> read_vdp_byte(mem, address, e)
          [] InRange(address, \hE00000, \hFFFFFF) ->
                Ret(mem, Peek(mem.main_ram, address % (\hFFFF + 1)), <<>>)
          [] OTHER -> Ret(mem, \hFF, <<>>)

\* <MainBus as z80_emu::BusInterface>::read_memory
read_memory(mem, address, e) ==
    CASE InRange(address, \h0000, \h3FFF) ->
            Ret(mem, Peek(mem.audio_ram, audio_ram_address(address)), <<>>)
      [] InRange(address, \h4000, \h5FFF) ->
            Ret(mem, e.dv % 256, <<Dev("ym2612", "read_register", 0)>>)
      [] InRange(address, \h6000, \h60FF) -> Ret(mem, \hFF, <<>>)
      [] InRange(address, \h6100, \h7EFF) -> Ret(mem, \hFF, <<>>)
      [] InRange(address, \h7F00, \h7F1F) -> read_vdp_byte(mem, address, e)
      [] InRange(address, \h7F20, \h7FFF) -> Ret(mem, \hFF, <<>>)
      [] OTHER ->
            LET m68k_addr == map_to_68k_address(mem.z80_bank_register, address)
            IN  IF ~InRange(m68k_addr, \hA00000, \hA0FFFF)
                THEN Crossed("m68k", m68k_addr, read_byte(mem, m68k_addr, e))
                ELSE Aborted(mem, <<>>, "panic")

\* <MainBus as m68000_emu::BusInterface>::read_word
read_word(mem, address32, e) ==
    LET address == address32 % (ADDRESS_MASK + 1)
    IN  CASE InRange(address, \h000000, \h3FFFFF) -> Cartridge_read_word(mem, address, e)
          [] InRange(address, \hA00000, \hA0FFFF) ->
                LET byte == read_byte(mem, address, e)
                IN  IF byte.abort = "none"
                    THEN [byte EXCEPT !.value = from_le_bytes(byte.value, byte.value)]
                    ELSE byte
          [] InRange(address, \hA10000, \hA1001F) -> read_io_register(mem, address, e)
          [] InRange(address, \hA11100, \hA11101) ->
                LET byte == IF e.z80_stalled THEN 0 ELSE 1
                IN  Ret(mem, from_le_bytes(byte, byte), <<>>)
          [] InRange(address, \hA13000, \hA130FF) -> Aborted(mem, <<>>, "todo")
          [] InRange(address, \hC00000, \hC00003) ->
                Ret(mem, e.dv, <<Dev("vdp", "read_data", 0)>>)
          [] InRange(address, \hC00004, \hC00007) ->
                Ret(mem, e.dv, <<Dev("vdp", "read_status", 0)>>)
          [] InRange(address, \hC00008, \hC0000F) ->
                Ret(mem, e.dv, <<Dev("vdp", "hv_counter", 0)>>)
          [] InRange(address, \hE00000, \hFFFFFF) ->
                LET ram_addr == address % (\hFFFF + 1)
                IN  Ret(mem, from_be_bytes(Peek(mem.main_ram, ram_addr),
                                           Peek(mem.main_ram, (ram_addr + 1) % (\hFFFF + 1))),
                        <<>>)
          [] OTHER -> Ret(mem, \hFFFF, <<>>)

\* Memory::read_word_for_dma
read_word_for_dma(mem, address, e) ==
    CASE InRange(address, \h000000, \h3FFFFF) -> Cartridge_read_word(mem, address, e)
      [] InRange(address, \hE00000, \hFFFFFF) ->
            LET addr == address % (\hFFFF + 1)
            IN  Ret(mem, from_be_bytes(Peek(mem.main_ram, addr),
                                       Peek(mem.main_ram, (addr + 1) % (\hFFFF + 1))),
                    <<>>)
      [] OTHER -> Ret(mem, \hFF, <<>>)

RECURSIVE write_byte(_, _, _), write_memory(_, _, _)

\* <MainBus as m68000_emu::BusInterface>::write_byte
write_byte(mem, address32, value) ==
    LET address == address32 % (ADDRESS_MASK + 1)
    IN  CASE InRange(address, \h000000, \h3FFFFF) -> Cartridge_write_byte(mem, address, value)
          [] InRange(address, \hA00000, \hA0FFFF) ->
                Crossed("z80", z80_area_address(address),
                        write_memory(mem, z80_area_address(address), value))
          [] InRange(address, \hA10000, \hA1001F) -> write_io_register(mem, address, value)
          [] InRange(address, \hA11100, \hA11101) ->
                Ret([mem EXCEPT !.signals.z80_busreq = bit(value, 0)], -1, <<>>)
          [] InRange(address, \hA11200, \hA11201) ->
                Ret([mem EXCEPT !.signals.z80_reset = ~bit(value, 0)], -1, <<>>)
          [] InRange(address, \hA13000, \hA130FF) -> Aborted(mem, <<>>, "todo")
          [] InRange(address, \hC00000, \hC0001F) -> write_vdp_byte(mem, address, value)
          [] InRange(address, \hE00000, \hFFFFFF) ->
                Ret([mem EXCEPT !.main_ram = Poke(@, address % (\hFFFF + 1), value)], -1, <<>>)
          [] OTHER -> Ret(mem, -1, <<>>)

\* <MainBus as z80_emu::BusInterface>::write_memory
write_memory(mem, address, value) ==
    CASE InRange(address, \h0000, \h3FFF) ->
            Ret([mem EXCEPT !.audio_ram = Poke(@, audio_ram_address(address), value)], -1, <<>>)
      [] InRange(address, \h4000, \h5FFF) ->
            (CASE address % 4 = 0 -> Ret(mem, -1, <<Dev("ym2612", "write_address_1", value)>>)
               [] address % 4 = 1 -> Ret(mem, -1, <<Dev("ym2612", "write_data_1", value)>>)
               [] address % 4 = 2 -> Ret(mem, -1, <<Dev("ym2612", "write_address_2", value)>>)
               [] address % 4 = 3 -> Ret(mem, -1, <<Dev("ym2612", "write_data_2", value)>>))
      [] InRange(address, \h6000, \h60FF) ->
            Ret([mem EXCEPT !.z80_bank_register = write_bit(@, bit(value, 0))], -1, <<>>)
      [] InRange(address, \h6100, \h7EFF) \/ InRange(address, \h7F20, \h7FFF) ->
            Ret(mem, -1, <<>>)
      [] InRange(address, \h7F00, \h7F1F) -> write_vdp_byte(mem, address, value)
      [] OTHER ->
            LET m68k_addr == map_to_68k_address(mem.z80_bank_register, address)
            IN  IF ~InRange(m68k_addr, \hA00000, \hA0FFFF)
                THEN Crossed("m68k", m68k_addr, write_byte(mem, m68k_addr, value))
                ELSE Aborted(mem, <<>>, "panic")

\* <MainBus as m68000_emu::BusInterface>::write_word
write_word(mem, address32, value) ==
    LET address == address32 % (ADDRESS_MASK + 1)
    IN  CASE InRange(address, \h000000, \h3FFFFF) -> Cartridge_write_word(mem, address, value)
          [] InRange(address, \hA00000, \hA0FFFF) -> write_byte(mem, address, value \div 256)
          [] InRange(address, \hA10000, \hA1001F) -> write_io_register(mem, address, value % 256)
          [] InRange(address, \hA11100, \hA11101) ->
                Ret([mem EXCEPT !.signals.z80_busreq = bit(value, 8)], -1, <<>>)
          [] InRange(address, \hA11200, \hA11201) ->
                Ret([mem EXCEPT !.signals.z80_reset = ~bit(value, 8)], -1, <<>>)
          [] InRange(address, \hA13000, \hA130FF) -> Aborted(mem, <<>>, "todo")
          [] InRange(address, \hC00000, \hC00003) ->
                Ret(mem, -1, <<Dev("vdp", "write_data", value)>>)
          [] InRange(address, \hC00004, \hC00007) ->
                Ret(mem, -1, <<Dev("vdp", "write_control", value)>>)
          [] InRange(address, \hE00000, \hFFFFFF) ->
                LET ram_addr == address % (\hFFFF + 1)
                IN  Ret([mem EXCEPT !.main_ram =
                            Poke(Poke(@, ram_addr, value \div 256),
                                 (ram_addr + 1) % (\hFFFF + 1), value % 256)],
                        -1, <<>>)
          [] OTHER -> Ret(mem, -1, <<>>)

\* the operation is a write that reaches Z80BankRegister::write_bit: a Z80
\* write to $6000-$60FF, or a 68000 write that the Z80 area passes on to it
\* (a word write passes on its high byte)
WritesBankBit(op, address) ==
    LET a == address % (ADDRESS_MASK + 1)
    IN  \/ op = "write_memory" /\ InRange(address, \h6000, \h60FF)
        \/ /\ op \in {"write_byte", "write_word"}
           /\ InRange(a, \hA00000, \hA0FFFF)
           /\ InRange(a % 32768, \h6000, \h60FF)

\* the bits written, with this one, the last nine of them
BankBitsAfter(op, address, data) ==
    LET b == IF op = "write_word" THEN bit(data, 8) ELSE bit(data, 0)
        all == Append(bank_bits, b)
    IN  IF ~WritesBankBit(op, address) THEN bank_bits
        ELSE IF Len(all) > 9 THEN Tail(all) ELSE all

\* one bus operation: Memory after it, and how it ended
Commit(op, address, data, e, o) ==
    /\ memory' = o.mem
    /\ bank_bits' = BankBitsAfter(op, address, data)
    /\ bus_last' = [op |-> op, address |-> address, data |-> data, env |-> e,
                    value |-> o.value, devs |-> o.devs, abort |-> o.abort,
                    via |-> o.via]
    /\ bus_ops' = bus_ops + 1
    /\ UNCHANGED bus_rest

\* an operation that aborted has ended the process
Running == bus_last.abort = "none"

ReadByte(can, A, E) ==
    \E address \in A, e \in E :
        /\ can /\ Running
        /\ Commit("read_byte", address, 0, e, read_byte(memory, address, e))

ReadWord(can, A, E) ==
    \E address \in A, e \in E :
        /\ can /\ Running
        /\ Commit("read_word", address, 0, e, read_word(memory, address, e))

ReadWordForDma(can, A, E) ==
    \E address \in A, e \in E :
        /\ can /\ Running
        /\ Commit("read_word_for_dma", address, 0, e, read_word_for_dma(memory, address, e))

WriteByte(can, A, V) ==
    \E address \in A, value \in V :
        /\ can /\ Running
        /\ Commit("write_byte", address, value, NoEnv, write_byte(memory, address, value))

WriteWord(can, A, V) ==
    \E address \in A, value \in V :
        /\ can /\ Running
        /\ Commit("write_word", address, value, NoEnv, write_word(memory, address, value))

ReadMemory(can, A, E) ==
    \E address \in A, e \in E :
        /\ can /\ Running
        /\ Commit("read_memory", address, 0, e, read_memory(memory, address, e))

WriteMemory(can, A, V) ==
    \E address \in A, value \in V :
        /\ can /\ Running
        /\ Commit("write_memory", address, value, NoEnv, write_memory(memory, address, value))

(***************************************************************************)
(* One operation at any address, from a Memory that earlier writes left.   *)
(***************************************************************************)
M68kAddresses ==
    { \h000000, \h3FFFFF, \h400000, \h9FFFFF,
      \hA00000, \hA01FFF, \hA02000, \hA04000, \hA04001, \hA06000, \hA06100,
      \hA07F00, \hA07F04, \hA07F08, \hA07F0C, \hA07F11, \hA07F20,
      \hA08000, \hA0C001, \hA0FFFF,
      \hA10000, \hA10002, \hA1000E, \hA1001F, \hA10020, \hA110FF,
      \hA11100, \hA11101, \hA11102, \hA11200, \hA12FFF, \hA13000, \hA130FF, \hA13100,
      \hC00000, \hC00001, \hC00004, \hC00005, \hC00008, \hC00009, \hC0000C, \hC0000F,
      \hC00010, \hC00011, \hC0001F, \hC00020, \hDFFFFF,
      \hE00000, \hE0FFFF, \hFFFFFF, \h1E00000 }

Z80Addresses ==
    { \h0000, \h1FFF, \h2000, \h3FFF, \h4000, \h4001, \h4002, \h5FFF,
      \h6000, \h60FF, \h6100, \h7EFF, \h7F00, \h7F04, \h7F08, \h7F0C, \h7F11, \h7F1F,
      \h7F20, \h7FFF, \h8000, \h800C, \h9100, \hB000, \hC00C, \hFFFF }

ByteValues == {\h5A, \hAB}
WordValues == {\h5AAB, \hAB5A}

Envs ==
    { [dv |-> \h1234, z80_stalled |-> FALSE, version_bit |-> TRUE, pal |-> FALSE],
      [dv |-> \hFFFE, z80_stalled |-> TRUE, version_bit |-> FALSE, pal |-> TRUE] }

\* nine writes of a bit at $6000 leave any 9-bit bank number
BankNumbers == {\h000, \h001, \h080, \h140, \h141, \h142, \h180, \h1C0, \h1FF}

\* RAM that writes have filled, the Z80 signals set either way
BusMemories ==
    { [main_ram |-> (0 :> \h12) @@ (1 :> \h34) @@ (\hFFFF :> \h56),
       audio_ram |-> (0 :> \h77) @@ (\h1FFF :> \h88),
       z80_bank_register |-> [bank_number |-> b],
       signals |-> [z80_busreq |-> s, z80_reset |-> ~s]]
      : b \in BankNumbers, s \in BOOLEAN }

InitBusInputs ==
    /\ InitSm83 /\ InitDecode /\ InitM68k /\ InitPulse /\ InitSample /\ InitRegion /\ InitGenesis /\ InitSms /\ InitWram
    /\ memory \in BusMemories
    /\ bus_last = NoBusOp
    /\ bus_ops = 0
    /\ bank_bits = <<>>

NextBus ==
    \/ ReadByte(bus_ops = 0, M68kAddresses, Envs)
    \/ ReadWord(bus_ops = 0, M68kAddresses, Envs)
    \/ ReadWordForDma(bus_ops = 0, M68kAddresses, Envs)
    \/ WriteByte(bus_ops = 0, M68kAddresses, ByteValues)
    \/ WriteWord(bus_ops = 0, M68kAddresses, WordValues)
    \/ ReadMemory(bus_ops = 0, Z80Addresses, Envs)
    \/ WriteMemory(bus_ops = 0, Z80Addresses, ByteValues)

SpecBus == InitBusInputs /\ [][NextBus]_vars

M68kOps == {"read_byte", "read_word", "write_byte", "write_word"}

\* C15: read_byte, read_word, write_byte and write_word of the 68000 side
\* return normally for every address and every data value: none of them
\* aborts.
C15_M68kBusTotal ==
    bus_last.op \in M68kOps => bus_last.abort = "none"

\* read_byte of $C0000C stops at read_vdp_byte's unreachable!(), and
\* $A13000 at todo!("timer register")
C15_ReadAborts ==
    /\ bus_last.op = "read_byte"
    /\ bus_last.address = \hC0000C
    /\ bus_last.abort = "unreachable"

C15_TimerTodo ==
    /\ bus_last.op \in M68kOps
    /\ bus_last.address = \hA13000
    /\ bus_last.abort = "todo"

\* away from the VDP ports $08-$0F and the timer registers the four return
M68kAbortsOnlyAtGaps ==
    (bus_last.op \in M68kOps /\ bus_last.abort # "none") =>
        LET address == bus_last.address % (ADDRESS_MASK + 1)
        IN  \/ InRange(address, \hA13000, \hA130FF)
            \/ /\ InRange(address, \hC00000, \hC0001F) \/ InRange(address, \hA07F00, \hA07F1F)
               /\ InRange(address % 32, \h08, \h0F)

\* a 24-bit address that no device owns
Unowned(address) ==
    /\ InRange(address, \h400000, \hDFFFFF)
    /\ ~InRange(address, \hA00000, \hA0FFFF)
    /\ ~InRange(address, \hA10000, \hA1001F)
    /\ ~InRange(address, \hA11100, \hA11101)
    /\ ~InRange(address, \hA11200, \hA11201)
    /\ ~InRange(address, \hA13000, \hA130FF)
    /\ ~InRange(address, \hC00000, \hC0001F)

\* at an unowned address read_byte returns $FF, read_word returns $FFFF,
\* read_word_for_dma returns dma_open_bus, and a write changes nothing and
\* calls no chip
OpenBus(dma_open_bus) ==
    Unowned(bus_last'.address) =>
        /\ bus_last'.op # "none" => bus_last'.abort = "none" /\ bus_last'.devs = <<>>
        /\ bus_last'.op = "read_byte" => bus_last'.value = \hFF
        /\ bus_last'.op = "read_word" => bus_last'.value = \hFFFF
        /\ bus_last'.op = "read_word_for_dma" => bus_last'.value = dma_open_bus
        /\ bus_last'.op \in {"write_byte", "write_word"} => memory' = memory

\* C16: at every 68000 bus address owned by no device, every read path
\* returns the all-ones open-bus value (read_byte $FF, read_word and
\* read_word_for_dma $FFFF), and write_byte and write_word change no main
\* RAM, audio RAM, bank register, Z80 signal or peripheral state.
C16_OpenBus == [][OpenBus(\hFFFF)]_vars

\* what holds as built: read_word_for_dma returns $00FF there
OpenBusAsBuilt == [][OpenBus(\h00FF)]_vars

C16_DmaReadsFF ==
    /\ bus_last.op = "read_word_for_dma"
    /\ bus_last.address = \h400000
    /\ bus_last.value = \h00FF

\* the 68000 address that bank value b gives Z80 address a
Mapped(b, a) == (b * 32768) + (a % 32768)

InWindow(a) == InRange(a, \h8000, \hFFFF)
OwnArea(m) == InRange(m, \hA00000, \hA0FFFF)

\* the outcome now in bus_last and memory is the outcome o
SameOutcome(o) ==
    /\ bus_last'.value = o.value
    /\ bus_last'.devs = o.devs
    /\ bus_last'.abort = o.abort
    /\ memory' = o.mem

\* C17: for a Z80 address a in $8000-$FFFF and a bank value b whose mapped
\* address m = (b << 15) | (a & $7FFF) is outside $A00000-$A0FFFF,
\* read_memory(a) returns exactly what read_byte(m) returns and
\* write_memory(a, v) has exactly the effect of write_byte(m, v).
C17_WindowIsMainBus ==
    [][LET a == bus_last'.address
           m == Mapped(memory.z80_bank_register.bank_number, a)
       IN  (InWindow(a) /\ ~OwnArea(m)) =>
              /\ bus_last'.op = "read_memory" =>
                    SameOutcome(read_byte(memory, m, bus_last'.env))
              /\ bus_last'.op = "write_memory" =>
                    SameOutcome(write_byte(memory, m, bus_last'.data))]_vars

\* a Z80 write at $8000 under bank $1C0 has landed in main RAM at $E00000,
\* over the $12 that was there
C17_Witness ==
    /\ bus_last.op = "write_memory"
    /\ bus_last.address = \h8000
    /\ memory.z80_bank_register.bank_number = \h1C0
    /\ bus_last.abort = "none"
    /\ Peek(memory.main_ram, 0) = bus_last.data

\* a Z80 read at $FFFF under bank $1FF has returned main RAM's last byte
C17_WindowRead ==
    /\ bus_last.op = "read_memory"
    /\ bus_last.address = \hFFFF
    /\ memory.z80_bank_register.bank_number = \h1FF
    /\ bus_last.value = \h56

\* the ways an operation ends the process instead of returning
AbortKinds == {"todo", "unreachable", "panic"}

\* a Z80 access of the window while the bank register maps it into
\* $A00000-$A0FFFF
OwnAreaAccess ==
    /\ bus_last'.op \in {"read_memory", "write_memory"}
    /\ InWindow(bus_last'.address)
    /\ OwnArea(Mapped(memory.z80_bank_register.bank_number, bus_last'.address))

\* C18: when the bank register maps the window into $A00000-$A0FFFF, a Z80
\* read or write of $8000-$FFFF is reported as a distinct lockup outcome:
\* the access does not end the process, it yields no memory value, and it
\* reads or modifies no audio RAM, YM2612, bank register or VDP state.
C18_LockupReported ==
    [][OwnAreaAccess =>
          /\ bus_last'.abort \notin AbortKinds
          /\ bus_last'.value = -1
          /\ bus_last'.devs = <<>>
          /\ memory' = memory]_vars

\* what holds as built: the access stops at panic!(), having touched nothing
LockupAsBuilt ==
    [][OwnAreaAccess =>
          /\ bus_last'.abort = "panic"
          /\ bus_last'.value = -1
          /\ bus_last'.devs = <<>>
          /\ memory' = memory]_vars

C18_ReadPanics ==
    /\ bus_last.op = "read_memory"
    /\ bus_last.address = \h8000
    /\ memory.z80_bank_register.bank_number = \h140
    /\ bus_last.abort = "panic"

(***************************************************************************)
(* Runs of byte operations from Memory::new, over the audio RAM's aliases, *)
(* the bank register and the window.                                       *)
(***************************************************************************)
MaxBusOps == 4

RunZ80Addresses == {\h0000, \h1FFF, \h2000, \h3FFF, \h6000, \h8000}
RunM68kAddresses == {\hA00000, \hA01FFF, \hA02000, \hA08000, \hA0A000, \hA0BFFF}

NextBusRun ==
    \/ ReadMemory(bus_ops < MaxBusOps, RunZ80Addresses, {NoEnv})
    \/ WriteMemory(bus_ops < MaxBusOps, RunZ80Addresses, ByteValues)
    \/ ReadByte(bus_ops < MaxBusOps, RunM68kAddresses, {NoEnv})
    \/ WriteByte(bus_ops < MaxBusOps, RunM68kAddresses, ByteValues)

SpecBusRun == Init /\ [][NextBusRun]_vars

\* a XOR $2000, for a in $0000-$3FFF
Xor2000(a) == IF (a \div 8192) % 2 = 1 THEN a - 8192 ELSE a + 8192

\* the Z80 addresses a in $0000-$3FFF of which the access is an alias: a
\* itself from the Z80, $A00000+a and $A08000+a from the 68000
AliasBase(op, address) ==
    CASE op \in {"read_memory", "write_memory"} /\ InRange(address, \h0000, \h3FFF) ->
            {address}
      [] op \in {"read_byte", "write_byte"} /\ InRange(address, \hA00000, \hA03FFF) ->
            {address - \hA00000}
      [] op \in {"read_byte", "write_byte"} /\ InRange(address, \hA08000, \hA0BFFF) ->
            {address - \hA08000}
      [] OTHER -> {}

BusReads == {"read_memory", "read_byte"}
BusWrites == {"write_memory", "write_byte"}

\* C19: the 8 KB audio RAM is aliased by address masking: for every Z80
\* address a in $0000-$3FFF a byte written at a is read back at a and at
\* a XOR $2000, the 68000 reads that same byte at $A00000+a and at
\* $A08000+a, and a write through any of these aliases changes exactly
\* that one audio RAM byte.
C19_AudioRamAliases ==
    [][/\ \A a \in AliasBase(bus_last.op, bus_last.address),
             b \in AliasBase(bus_last'.op, bus_last'.address) :
             (/\ bus_last.op \in BusWrites
              /\ bus_last'.op \in BusReads
              /\ bus_ops' = bus_ops + 1
              /\ b \in {a, Xor2000(a)}) =>
                  bus_last'.abort = "none" /\ bus_last'.value = bus_last.data
       /\ \A b \in AliasBase(bus_last'.op, bus_last'.address) :
             /\ bus_last'.op \in BusReads =>
                   /\ bus_last'.value = Peek(memory.audio_ram, b % AUDIO_RAM_LEN)
                   /\ memory' = memory
             /\ bus_last'.op \in BusWrites =>
                   /\ Peek(memory'.audio_ram, b % AUDIO_RAM_LEN) = bus_last'.data
                   /\ \A i \in (DOMAIN memory.audio_ram \cup DOMAIN memory'.audio_ram)
                                  \ {b % AUDIO_RAM_LEN} :
                          Peek(memory'.audio_ram, i) = Peek(memory.audio_ram, i)
                   /\ memory'.main_ram = memory.main_ram
                   /\ memory'.z80_bank_register = memory.z80_bank_register
                   /\ memory'.signals = memory.signals
                   /\ bus_last'.devs = <<>>]_vars

\* the 68000 has read at $A0A000 the $5A that a write left in audio RAM
\* byte 0, while byte $1FFF holds another write's $AB
C19_Witness ==
    /\ bus_last.op = "read_byte"
    /\ bus_last.address = \hA0A000
    /\ bus_last.value = \h5A
    /\ Peek(memory.audio_ram, 0) = \h5A
    /\ Peek(memory.audio_ram, \h1FFF) = \hAB

\* three writes at $6000 have set the bank register to $140, and the read of
\* the window has stopped at panic!()
BankReachesOwnArea ==
    /\ memory.z80_bank_register.bank_number = \h140
    /\ bus_last.op = "read_memory"
    /\ bus_last.abort = "panic"

\* a 68000 access of the Z80 area
Z80AreaAccess == OwnArea(bus_last'.address % (ADDRESS_MASK + 1))

\* the word read has returned the byte of the one byte read b, in both halves
ReturnsDuplicated(b) ==
    /\ bus_last'.abort = "none"
    /\ b.abort = "none"
    /\ bus_last'.value = (b.value * 256) + b.value
    /\ bus_last'.devs = b.devs
    /\ memory' = b.mem

\* C20: all 68000 access to $A00000-$A0FFFF is byte-sized: a word write
\* performs exactly one byte write, of the high byte of the word, at that
\* address and discards the low byte; a word read performs exactly one byte
\* read and returns that byte duplicated in both halves of the word.
C20_ByteSized ==
    [][Z80AreaAccess =>
          /\ bus_last'.op = "write_word" =>
                SameOutcome(write_byte(memory, bus_last'.address, bus_last'.data \div 256))
          /\ bus_last'.op = "read_word" =>
                ReturnsDuplicated(read_byte(memory, bus_last'.address, bus_last'.env))]_vars

\* what holds as built: where the byte read aborts, the word read aborts
ByteSizedAsBuilt ==
    [][Z80AreaAccess =>
          /\ bus_last'.op = "write_word" =>
                SameOutcome(write_byte(memory, bus_last'.address, bus_last'.data \div 256))
          /\ bus_last'.op = "read_word" =>
                LET b == read_byte(memory, bus_last'.address, bus_last'.env)
                IN  IF b.abort = "none" THEN ReturnsDuplicated(b) ELSE SameOutcome(b)]_vars

C20_WordReadAborts ==
    /\ bus_last.op = "read_word"
    /\ bus_last.address = \hA07F0C
    /\ bus_last.abort = "unreachable"

\* a word write of $AB5A at $A00000 has left $AB in audio RAM byte 0, and
\* byte 1 as it was
WordWriteHighByte ==
    /\ bus_last.op = "write_word"
    /\ bus_last.address = \hA00000
    /\ bus_last.data = \hAB5A
    /\ Peek(memory.audio_ram, 0) = \hAB
    /\ Peek(memory.audio_ram, 1) = 0

(***************************************************************************)
(* Genesis: the region of a cartridge.  A ROM is its length and the bytes  *)
(* it has at offsets $1F0, $1F1, $1F2.                                     *)
(***************************************************************************)
GenesisRegion == {"Americas", "Japan", "Europe"}

\* u8::from_str_radix(&c.to_string(), 16) of the char of one byte: the digit's
\* value, or -1 for Err
from_str_radix_16(byte) ==
    IF InRange(byte, 48, 57) THEN byte - 48
    ELSE IF InRange(byte, 65, 70) THEN byte - 55
    ELSE IF InRange(byte, 97, 102) THEN byte - 87
    ELSE -1

\* region_bytes.contains(&b)
contains(region_bytes, b) == \E i \in DOMAIN region_bytes : region_bytes[i] = b

\* GenesisRegion::from_rom looking for 'J' before 'U'
GenesisRegion_from_rom_japan_first(rom) ==
    IF rom.len < \h1F3 THEN [value |-> "None", abort |-> "range end index out of range"]
    ELSE LET region_bytes == rom.region_bytes
             value == from_str_radix_16(region_bytes[1])
         IN  [abort |-> "none",
              value |->
                IF contains(region_bytes, 74) THEN "Japan"
                ELSE IF contains(region_bytes, 85) THEN "Americas"
                ELSE IF contains(region_bytes, 69) THEN "Europe"
                ELSE IF value = -1 THEN "None"
                ELSE IF bit(value, 2) THEN "Americas"
                ELSE IF bit(value, 0) THEN "Japan"
                ELSE IF bit(value, 3) THEN "Europe"
                ELSE "None"]

\* GenesisRegion::from_rom: Some(region) is the region, None is "None"; the
\* slice &rom[0x1F0..0x1F3] panics on a ROM shorter than $1F3 bytes
GenesisRegion_from_rom(rom) ==
    IF rom.len < \h1F3 THEN [value |-> "None", abort |-> "range end index out of range"]
    ELSE LET region_bytes == rom.region_bytes
             value == from_str_radix_16(region_bytes[1])
         IN  [abort |-> "none",
              value |->
                IF contains(region_bytes, 85) THEN "Americas"
                ELSE IF contains(region_bytes, 74) THEN "Japan"
                ELSE IF contains(region_bytes, 69) THEN "Europe"
                ELSE IF value = -1 THEN "None"
                ELSE IF bit(value, 2) THEN "Americas"
                ELSE IF bit(value, 0) THEN "Japan"
                ELSE IF bit(value, 3) THEN "Europe"
                ELSE "None"]

\* Cartridge::from_rom, for its region field: unwrap_or_else calls
\* GenesisRegion::from_rom only without a forced region; rom_bytes.len() - 1
\* overflows on an empty ROM, which a build with overflow checks aborts on
Cartridge_from_rom(rom, forced_region, checked) ==
    LET detected == GenesisRegion_from_rom(rom)
        region == IF forced_region # "None" THEN forced_region
                  ELSE IF detected.value # "None" THEN detected.value
                  ELSE "Americas"
    IN  IF forced_region = "None" /\ detected.abort # "none"
        THEN [value |-> "None", abort |-> detected.abort]
        ELSE IF rom.len = 0 /\ checked
        THEN [value |-> "None", abort |-> "attempt to subtract with overflow"]
        ELSE [value |-> region, abort |-> "none"]

\* the bytes tried at each of the three offsets: 'U', 'J', 'E', 'e', the digits
\* '0', '1', '2', '4', '8', 'A', a space, 'G', NUL and $FF
RegionByteValues == {85, 74, 69, 101, 48, 49, 50, 52, 56, 65, 32, 71, 0, 255}

\* ROMs that reach past the region code, and ROMs that end before or inside it
Roms ==
    { [len |-> \h200, region_bytes |-> <<a, b, c>>] :
        a \in RegionByteValues, b \in RegionByteValues, c \in RegionByteValues }
    \cup { [len |-> 0, region_bytes |-> <<>>], [len |-> \h1F0, region_bytes |-> <<>>],
           [len |-> \h1F2, region_bytes |-> <<85, 85>>] }

ForcedRegions == {"None", "Japan"}

InitRegionInputs ==
    /\ InitSm83 /\ InitDecode /\ InitM68k /\ InitPulse /\ InitSample /\ InitBus /\ InitGenesis /\ InitSms /\ InitWram
    /\ rgn_rom \in Roms
    /\ rgn_forced \in ForcedRegions
    /\ rgn_result = [op |-> "none", value |-> "None", abort |-> "none"]

FromRom ==
    /\ rgn_result.op = "none"
    /\ rgn_result' = [op |-> "GenesisRegion::from_rom"] @@ GenesisRegion_from_rom(rgn_rom)
    /\ UNCHANGED <<rgn_rom, rgn_forced>>
    /\ UNCHANGED rgn_rest

CartridgeFromRom ==
    /\ rgn_result.op = "none"
    /\ \E checked \in BOOLEAN :
          rgn_result' = [op |-> "Cartridge::from_rom"]
                            @@ Cartridge_from_rom(rgn_rom, rgn_forced, checked)
    /\ UNCHANGED <<rgn_rom, rgn_forced>>
    /\ UNCHANGED rgn_rest

NextRegion == FromRom \/ CartridgeFromRom

SpecRegion == InitRegionInputs /\ [][NextRegion]_vars

\* the values d of which the byte is a hexadecimal digit, in either case
HexDigitValues(byte) ==
    {d \in 0..15 : \/ d < 10 /\ byte = 48 + d
                   \/ d >= 10 /\ byte \in {55 + d, 87 + d}}

\* the region the precedence order gives three region bytes
RegionByPrecedence(b) ==
    LET has(ch) == b[1] = ch \/ b[2] = ch \/ b[3] = ch
        byDigit(d) == IF (d \div 4) % 2 = 1 THEN "Americas"
                      ELSE IF d % 2 = 1 THEN "Japan"
                      ELSE IF (d \div 8) % 2 = 1 THEN "Europe"
                      ELSE "None"
    IN  IF has(85) THEN "Americas"
        ELSE IF has(74) THEN "Japan"
        ELSE IF has(69) THEN "Europe"
        ELSE IF HexDigitValues(b[1]) = {} THEN "None"
        ELSE byDigit(CHOOSE d \in HexDigitValues(b[1]) : TRUE)

\* C27: GenesisRegion::from_rom, applied to the three bytes at ROM offsets
\* $1F0-$1F2, returns Americas whenever any of them is 'U', whatever the
\* others; otherwise Japan if any is 'J'; otherwise Europe if any is 'E';
\* otherwise it reads the first byte as a hexadecimal digit and returns
\* Americas if bit 2 is set, else Japan if bit 0 is set, else Europe if bit 3
\* is set, else no region.
C27_RegionPrecedence ==
    (rgn_result.op = "GenesisRegion::from_rom" /\ rgn_rom.len >= \h1F3) =>
        /\ rgn_result.abort = "none"
        /\ rgn_result.value = RegionByPrecedence(rgn_rom.region_bytes)

\* C27 witness: 'J', 'E', 'U' at the three offsets has given Americas
C27_Witness ==
    /\ rgn_result.op = "GenesisRegion::from_rom"
    /\ rgn_rom.region_bytes = <<74, 69, 85>>
    /\ rgn_result.value = "Americas"

\* '8' alone has given Europe, 'e' Americas by its digit value, '2' no region
RegionByDigit ==
    /\ rgn_result.op = "GenesisRegion::from_rom"
    /\ \/ rgn_rom.region_bytes = <<56, 32, 32>> /\ rgn_result.value = "Europe"
       \/ rgn_rom.region_bytes = <<101, 32, 32>> /\ rgn_result.value = "Americas"
       \/ rgn_rom.region_bytes = <<50, 32, 32>> /\ rgn_result.value = "None"

\* C28: Cartridge::from_rom never fails the load because of the region: with
\* no forced region and region bytes that GenesisRegion::from_rom does not
\* recognise the cartridge region is Americas, for every ROM content; with a
\* forced region the forced region is used whatever the ROM contains.
C28_RegionNeverFailsLoad ==
    rgn_result.op = "Cartridge::from_rom" =>
        LET recognised == IF rgn_rom.len >= \h1F3
                          THEN RegionByPrecedence(rgn_rom.region_bytes)
                          ELSE "None"
        IN  /\ rgn_result.abort # "range end index out of range"
            /\ rgn_result.abort = "none" =>
                  rgn_result.value =
                      IF rgn_forced # "None" THEN rgn_forced
                      ELSE IF recognised # "None" THEN recognised
                      ELSE "Americas"

\* a ROM of $1F0 bytes, no forced region: the load has stopped in
\* GenesisRegion::from_rom
C28_ShortRomPanics ==
    /\ rgn_result.op = "Cartridge::from_rom"
    /\ rgn_rom.len = \h1F0 /\ rgn_forced = "None"
    /\ rgn_result.abort = "range end index out of range"

\* what holds as built: on a ROM that reaches past the region code the load
\* gets the forced region, else the recognised one, else Americas
RegionOfLongRom ==
    (rgn_result.op = "Cartridge::from_rom" /\ rgn_rom.len >= \h1F3) =>
        /\ rgn_result.abort = "none"
        /\ rgn_result.value =
              IF rgn_forced # "None" THEN rgn_forced
              ELSE IF RegionByPrecedence(rgn_rom.region_bytes) # "None"
                   THEN RegionByPrecedence(rgn_rom.region_bytes)
                   ELSE "Americas"

\* 'G', space, space and no forced region has given Americas
UnrecognisedGivesAmericas ==
    /\ rgn_result.op = "Cartridge::from_rom"
    /\ rgn_rom.region_bytes = <<71, 32, 32>> /\ rgn_forced = "None"
    /\ rgn_result.value = "Americas"

(***************************************************************************)
(* GenesisEmulator::tick.  The 68000, the Z80, the VDP, the sound chips,   *)
(* the renderer, the audio output and the save writer are other files: an  *)
(* instruction's cycle count, whether it wrote to the cartridge's RAM,     *)
(* whether the VDP completed a frame and whether each collaborator         *)
(* succeeded are inputs of a tick.                                         *)
(***************************************************************************)
M68K_MCLK_DIVIDER == 7
Z80_MCLK_DIVIDER == 15

\* z80_cycles taken from the elapsed cycles of the tick alone
z80_cycles_per_tick(mclk, elapsed_mclk_cycles) ==
    elapsed_mclk_cycles \div Z80_MCLK_DIVIDER

\* let z80_cycles = ((master_clock_cycles + elapsed_mclk_cycles) / 15)
\*                  - master_clock_cycles / 15
z80_cycles(mclk, elapsed_mclk_cycles) ==
    ((mclk + elapsed_mclk_cycles) \div Z80_MCLK_DIVIDER) - (mclk \div Z80_MCLK_DIVIDER)

\* ExternalMemory::write_byte, write_word: the dirty bit is set
external_ram_written(ram) == [ram EXCEPT !.dirty = TRUE, !.unsaved_write = TRUE]

\* the save step that does not ask for the dirty bit
persist_whenever_persistent(ram, save_ok) ==
    IF ram.persistent /\ ~ram.empty
    THEN [ram |-> [ram EXCEPT !.dirty = FALSE, !.unsaved_write = FALSE],
          calls |-> <<"persist_save">>,
          result |-> IF save_ok THEN "Ok" ELSE "Save"]
    ELSE [ram |-> ram, calls |-> <<>>, result |-> "Ok"]

\* the save step that takes the dirty bit and saves nothing
persist_if_dirty_unsaved(ram, save_ok) ==
    IF ram.persistent /\ ram.dirty
    THEN [ram |-> [ram EXCEPT !.dirty = FALSE], calls |-> <<>>, result |-> "Ok"]
    ELSE [ram |-> ram, calls |-> <<>>, result |-> "Ok"]

\* if is_external_ram_persistent() && get_and_clear_external_ram_dirty()
\* { if !ram.is_empty() { persist_save(ram)? } }: the second operand is
\* called, and clears the bit, only when the first holds
persist_if_dirty(ram, save_ok) ==
    IF ram.persistent /\ ram.dirty
    THEN IF ~ram.empty
         THEN [ram |-> [ram EXCEPT !.dirty = FALSE, !.unsaved_write = FALSE],
               calls |-> <<"persist_save">>,
               result |-> IF save_ok THEN "Ok" ELSE "Save"]
         ELSE [ram |-> [ram EXCEPT !.dirty = FALSE], calls |-> <<>>, result |-> "Ok"]
    ELSE [ram |-> ram, calls |-> <<>>, result |-> "Ok"]

\* the frame steps that go on after a collaborator failed
frame_complete_going_on(ram, render_ok, audio_ok, save_ok) ==
    LET saved == persist_if_dirty(ram, save_ok)
    IN  [ram |-> saved.ram,
         calls |-> <<"render_frame", "output_samples", "set_inputs">> \o saved.calls,
         result |-> IF ~render_ok THEN "Render"
                    ELSE IF ~audio_ok THEN "Audio"
                    ELSE IF saved.result = "Save" THEN "Save"
                    ELSE "FrameRendered"]

\* the body of if self.vdp.tick(..) == VdpTickEffect::FrameComplete
frame_complete(ram, render_ok, audio_ok, save_ok) ==
    LET saved == persist_if_dirty(ram, save_ok)
    IN  IF ~render_ok
        THEN [ram |-> ram, calls |-> <<"render_frame">>, result |-> "Render"]
        ELSE IF ~audio_ok
        THEN [ram |-> ram, calls |-> <<"render_frame", "output_samples">>,
              result |-> "Audio"]
        ELSE [ram |-> saved.ram,
              calls |-> <<"render_frame", "output_samples", "set_inputs">> \o saved.calls,
              result |-> IF saved.result = "Save" THEN "Save" ELSE "FrameRendered"]

\* ticks per behaviour
MaxGenTicks == 4

\* the cycle counts of the instructions of the model
GenCycles == {4, 11}

\* GenesisEmulator::tick
GenesisTick(m68k_cycles, wrote, frame, render_ok, audio_ok, save_ok) ==
    LET elapsed_mclk_cycles == m68k_cycles * M68K_MCLK_DIVIDER
        z80 == z80_cycles(master_clock_cycles, elapsed_mclk_cycles)
        ram == IF wrote THEN external_ram_written(gen_ram) ELSE gen_ram
        done == IF frame THEN frame_complete(ram, render_ok, audio_ok, save_ok)
                ELSE [ram |-> ram, calls |-> <<>>, result |-> "None"]
    IN  /\ gen_ticks < MaxGenTicks
        /\ gen_ticks' = gen_ticks + 1
        /\ master_clock_cycles' = master_clock_cycles + elapsed_mclk_cycles
        /\ gen_ticked' = [m68k_cycles |-> gen_ticked.m68k_cycles + m68k_cycles,
                          z80 |-> gen_ticked.z80 + z80,
                          psg |-> gen_ticked.psg + z80,
                          ym2612 |-> gen_ticked.ym2612 + m68k_cycles]
        /\ gen_ram' = done.ram
        /\ gen_last' = [m68k_cycles |-> m68k_cycles, wrote |-> wrote, frame |-> frame,
                        render_ok |-> render_ok, audio_ok |-> audio_ok,
                        save_ok |-> save_ok,
                        calls |-> done.calls, result |-> done.result]
        /\ UNCHANGED gen_rest

\* a tick in which the VDP completes no frame
TickNoFrame ==
    \E m68k_cycles \in GenCycles, wrote \in BOOLEAN :
        GenesisTick(m68k_cycles, wrote, FALSE, TRUE, TRUE, TRUE)

\* a tick in which the VDP completes a frame and every collaborator succeeds
TickFrame ==
    \E m68k_cycles \in GenCycles, wrote \in BOOLEAN :
        GenesisTick(m68k_cycles, wrote, TRUE, TRUE, TRUE, TRUE)

\* a tick in which the VDP completes a frame and one collaborator fails
TickFrameFailing ==
    \E m68k_cycles \in GenCycles, wrote \in BOOLEAN,
       failing \in {"render", "audio", "save"} :
        GenesisTick(m68k_cycles, wrote, TRUE,
                    failing # "render", failing # "audio", failing # "save")

\* a cartridge with or without battery-backed RAM, of some size or of none
InitGenesisInputs ==
    /\ InitSm83 /\ InitDecode /\ InitM68k /\ InitPulse /\ InitSample /\ InitBus /\ InitSms /\ InitWram
    /\ InitRegion
    /\ master_clock_cycles = 0
    /\ gen_ticked = [m68k_cycles |-> 0, z80 |-> 0, psg |-> 0, ym2612 |-> 0]
    /\ \E persistent \in BOOLEAN, empty \in BOOLEAN :
          gen_ram = [persistent |-> persistent, empty |-> empty, dirty |-> FALSE,
                     unsaved_write |-> FALSE]
    /\ gen_last = [m68k_cycles |-> 0, wrote |-> FALSE, frame |-> FALSE,
                   render_ok |-> TRUE, audio_ok |-> TRUE, save_ok |-> TRUE,
                   calls |-> <<>>, result |-> "none"]
    /\ gen_ticks = 0

NextGenesis == TickNoFrame \/ TickFrame \/ TickFrameFailing

SpecGenesis == InitGenesisInputs /\ [][NextGenesis]_vars

\* C21: after any sequence of ticks master_clock_cycles is 7 times the 68000
\* cycles executed, the Z80 ticks and the PSG ticks are each
\* floor(master_clock_cycles / 15), and the YM2612 ticks are the 68000
\* cycles: no fraction of a Z80 cycle is lost or counted twice between ticks.
C21_ClockRatios ==
    /\ master_clock_cycles = 7 * gen_ticked.m68k_cycles
    /\ gen_ticked.z80 = master_clock_cycles \div 15
    /\ gen_ticked.psg = master_clock_cycles \div 15
    /\ gen_ticked.ym2612 = gen_ticked.m68k_cycles

\* C21 witness: two instructions of 4 cycles, 28 master cycles each, have
\* ticked the Z80 three times, not twice
C21_Witness ==
    /\ gen_ticks = 2
    /\ master_clock_cycles = 56
    /\ gen_ticked.z80 = 3
    /\ gen_last.m68k_cycles = 4

\* how often a tick called persist_save
Persists(device_calls) ==
    Cardinality({i \in DOMAIN device_calls : device_calls[i] = "persist_save"})

\* a step that is one tick of the Genesis
GenesisTicked == gen_ticks' = gen_ticks + 1

\* C23: tick invokes persist_save only in a tick in which the VDP completed a
\* frame, only if the external RAM is persistent and its dirty flag was set
\* by a write since the previous persist_save, and at most once per tick; a
\* completed frame with no write in between never invokes it.
C23_PersistOnlyWhenDirty ==
    [][GenesisTicked =>
          LET written == gen_ram.unsaved_write \/ gen_last'.wrote
              dirty == gen_ram.dirty \/ gen_last'.wrote
          IN  /\ Persists(gen_last'.calls) <= 1
              /\ Persists(gen_last'.calls) = 1 =>
                    /\ gen_last'.frame
                    /\ gen_ram.persistent
                    /\ dirty /\ written
              /\ (gen_last'.frame /\ ~written) => Persists(gen_last'.calls) = 0]_vars

\* C23 witness: a frame has completed in a tick without a write and
\* persist_save was called for the write of an earlier tick, and returned Ok
C23_Witness ==
    /\ gen_ticks >= 2
    /\ gen_last.frame /\ ~gen_last.wrote
    /\ gen_last.calls = <<"render_frame", "output_samples", "set_inputs", "persist_save">>
    /\ gen_last.result = "FrameRendered"
    /\ ~gen_ram.dirty /\ ~gen_ram.unsaved_write

\* the dirty bit is set only after a write that no persist_save followed
DirtyMeansUnsaved == gen_ram.dirty => gen_ram.unsaved_write

\* the frame steps in the order of the code
FrameSteps == <<"render_frame", "output_samples", "set_inputs", "persist_save">>

\* C26: at frame completion the collaborators are invoked in the order
\* render_frame, audio output, input latch, persist_save; the first failure
\* returns the error tagged with the failing collaborator, no later step is
\* performed in that tick, and the advancement of the CPU, the chips and
\* master_clock_cycles made in that tick is kept.
C26_FrameStepsStopAtFirstFailure ==
    [][(GenesisTicked /\ gen_last'.frame) =>
          LET l == gen_last'
              n == Len(l.calls)
          IN  /\ n \in 1..4 /\ l.calls = SubSeq(FrameSteps, 1, n)
              /\ ~l.render_ok => l.result = "Render" /\ n = 1
              /\ (l.render_ok /\ ~l.audio_ok) => l.result = "Audio" /\ n = 2
              /\ (l.render_ok /\ l.audio_ok) =>
                    /\ n >= 3
                    /\ l.result = IF n = 4 /\ ~l.save_ok THEN "Save" ELSE "FrameRendered"
              /\ master_clock_cycles' = master_clock_cycles + 7 * l.m68k_cycles
              /\ gen_ticked'.m68k_cycles = gen_ticked.m68k_cycles + l.m68k_cycles
              /\ gen_ticked'.ym2612 = gen_ticked.ym2612 + l.m68k_cycles
              /\ gen_ticked'.z80 = master_clock_cycles' \div 15
              /\ gen_ticked'.psg = master_clock_cycles' \div 15]_vars

\* C26 witness: the audio output has failed after a rendered frame: the
\* inputs were not latched, nothing was saved, the instruction is counted
C26_Witness ==
    /\ gen_last.frame /\ gen_last.result = "Audio"
    /\ gen_last.calls = <<"render_frame", "output_samples">>
    /\ gen_ram.persistent /\ gen_ram.dirty /\ ~gen_ram.empty
    /\ master_clock_cycles = 7 * 11 /\ gen_ticked.z80 = 5

\* a failing persist_save is reported after all four steps
SaveFailureIsLast ==
    (gen_last.frame /\ gen_last.result = "Save") => gen_last.calls = FrameSteps

\* C25: the dirty flag is cleared only when the save-writer has persisted
\* the data: a tick in which persist_save is not called, or in which it
\* returns an error, leaves a set dirty flag set. (Genesis driver.)
C25_DirtyKeptUntilPersisted ==
    [][(/\ GenesisTicked
        /\ gen_ram.dirty \/ gen_last'.wrote
        /\ Persists(gen_last'.calls) = 0 \/ gen_last'.result = "Save")
       => gen_ram'.dirty]_vars

\* as built: the flag is cleared by the test that precedes persist_save, so
\* it stays set exactly in the ticks that do not reach that test, or reach
\* it with RAM that is not persistent
DirtyAsBuilt ==
    [][(GenesisTicked /\ (gen_ram.dirty \/ gen_last'.wrote)) =>
          (gen_ram'.dirty <=>
             ~(/\ gen_last'.frame /\ gen_last'.render_ok /\ gen_last'.audio_ok
               /\ gen_ram.persistent))]_vars

\* a failed persist_save has left the flag cleared: no later frame retries
C25_SaveFailedFlagCleared ==
    /\ gen_last.result = "Save"
    /\ gen_last.calls = FrameSteps
    /\ ~gen_ram.dirty

(***************************************************************************)
(* SmsGgEmulator (smsgg-core/src/api.rs): tick, soft_reset and hard_reset. *)
(* The Z80, the PSG, the VDP, the cartridge memory and the input state are *)
(* collaborators: what an instruction takes and writes, when the PSG has a *)
(* sample pushed, when the VDP completes a frame and whether the renderer, *)
(* the audio output and the save writer succeed are inputs of a tick.      *)
(***************************************************************************)

\* let vdp_cycles = t_cycles / 2 * 3, without the cycle left over
vdp_cycles_of_instruction(t_cycles, leftover) == (t_cycles \div 2) * 3

\* let t_cycles_plus_leftover = t_cycles + self.leftover_vdp_cycles;
\* let vdp_cycles = t_cycles_plus_leftover / 2 * 3
vdp_cycles(t_cycles, leftover) == ((t_cycles + leftover) \div 2) * 3

\* RESET held while more than one frame remains
reset_held_but_last(remaining) == remaining > 1

\* self.input.set_reset(self.reset_frames_remaining != 0)
reset_held(remaining) == remaining # 0

\* u32::saturating_sub
saturating_sub(a, b) == IF a >= b THEN a - b ELSE 0

\* the argument of set_reset as the call log shows it
set_reset(reset) == IF reset THEN "set_reset(true)" ELSE "set_reset(false)"

\* SmsGgEmulator::tick. The instruction takes t_cycles and may write the
\* cartridge RAM; push_at is the PSG tick of this instruction at which a
\* sample is pushed (0: none), frame_at the VDP tick at which the frame
\* completes (0: none). An error returns from inside the loop it occurs in.
SmsTick(can, t_cycles, wrote, push_at, audio_ok, frame_at, render_ok, save_ok) ==
    LET ram == IF wrote THEN [sms_ram EXCEPT !.dirty = TRUE, !.unsaved_write = TRUE] ELSE sms_ram
        audio_failed == push_at # 0 /\ ~audio_ok
        t_cycles_plus_leftover == t_cycles + leftover_vdp_cycles
        cycles == vdp_cycles(t_cycles, leftover_vdp_cycles)
        frame == ~audio_failed /\ frame_at # 0
        latched == frame /\ render_ok
        count == IF latched THEN frame_count + 1 ELSE frame_count
        persist == /\ latched
                   /\ count % 60 = 0 /\ ram.battery /\ ram.dirty
        save_failed == persist /\ ~save_ok
        stopped == (frame /\ ~render_ok) \/ save_failed
        frame_calls ==
            IF ~frame THEN <<>>
            ELSE IF ~render_ok THEN <<"render_frame">>
            ELSE <<"render_frame", "set_inputs",
                   set_reset(reset_held(reset_frames_remaining))>>
                 \o (IF persist THEN <<"persist_save">> ELSE <<>>)
    IN  /\ can
        /\ push_at <= t_cycles /\ frame_at <= cycles
        /\ sms_ticks' = sms_ticks + 1
        /\ leftover_vdp_cycles' = IF audio_failed THEN leftover_vdp_cycles
                                  ELSE t_cycles_plus_leftover % 2
        /\ frame_count' = count
        /\ reset_frames_remaining' =
              IF latched THEN saturating_sub(reset_frames_remaining, 1)
              ELSE reset_frames_remaining
        /\ sms_ram' = IF persist THEN [ram EXCEPT !.dirty = FALSE, !.unsaved_write = FALSE] ELSE ram
        /\ sms_ticked' =
              [t_cycles |-> sms_ticked.t_cycles + t_cycles,
               psg |-> sms_ticked.psg + (IF audio_failed THEN push_at ELSE t_cycles),
               vdp |-> sms_ticked.vdp + (IF audio_failed THEN 0
                                         ELSE IF stopped THEN frame_at ELSE cycles),
               all_ok |-> sms_ticked.all_ok /\ ~audio_failed /\ ~stopped]
        /\ sms_soft' = [sms_soft EXCEPT
                          !.completed = @ + (IF frame THEN 1 ELSE 0),
                          !.latched = @ + (IF latched THEN 1 ELSE 0)]
        /\ sms_last' = [t_cycles |-> t_cycles, wrote |-> wrote, frame |-> frame,
                        calls |-> (IF push_at # 0 THEN <<"push_sample">> ELSE <<>>)
                                  \o frame_calls,
                        result |-> IF audio_failed THEN "Audio"
                                   ELSE IF frame /\ ~render_ok THEN "Render"
                                   ELSE IF save_failed THEN "SaveWrite"
                                   ELSE IF frame THEN "FrameRendered"
                                   ELSE "None"]
        /\ UNCHANGED sms_rest

\* SmsGgEmulator::soft_reset
SmsSoftReset(can) ==
    /\ can
    /\ reset_frames_remaining' = 5
    /\ sms_soft' = [armed |-> TRUE, completed |-> 0, latched |-> 0]
    /\ UNCHANGED <<leftover_vdp_cycles, frame_count, sms_ram, sms_ticked, sms_last,
                   sms_ticks>>
    /\ UNCHANGED sms_rest

\* SmsGgEmulator::hard_reset: the memory is made anew from the cartridge's
\* ROM and RAM, the three counters are zeroed, reset_frames_remaining stays
SmsHardReset(can) ==
    /\ can
    /\ leftover_vdp_cycles' = 0
    /\ frame_count' = 0
    /\ sms_ram' = [sms_ram EXCEPT !.dirty = FALSE]
    /\ sms_ticked' = [t_cycles |-> 0, psg |-> 0, vdp |-> 0, all_ok |-> TRUE]
    /\ UNCHANGED <<reset_frames_remaining, sms_soft, sms_last, sms_ticks>>
    /\ UNCHANGED sms_rest

\* ticks per behaviour of the clock specification
MaxSmsTicks == 4

\* the T-cycle counts of the instructions of the model, one even, one odd
SmsCycles == {4, 7}

SmsRunning == sms_ticks < MaxSmsTicks

\* a tick without a pushed sample and without a completed frame
TickQuiet ==
    \E t_cycles \in SmsCycles, wrote \in BOOLEAN :
        SmsTick(SmsRunning, t_cycles, wrote, 0, TRUE, 0, TRUE, TRUE)

\* a tick whose second PSG tick has a sample pushed
TickSample ==
    \E t_cycles \in SmsCycles, audio_ok \in BOOLEAN :
        SmsTick(SmsRunning, t_cycles, FALSE, 2, audio_ok, 0, TRUE, TRUE)

\* a tick whose third VDP tick completes the frame
TickFrameComplete ==
    \E t_cycles \in SmsCycles, wrote \in BOOLEAN, render_ok \in BOOLEAN :
        SmsTick(SmsRunning, t_cycles, wrote, 0, TRUE, 3, render_ok, TRUE)

SoftReset == SmsSoftReset(SmsRunning)

HardReset == SmsHardReset(SmsRunning)

\* a cartridge with or without a battery
InitSmsInputs ==
    /\ InitSm83 /\ InitDecode /\ InitM68k /\ InitPulse /\ InitSample /\ InitBus /\ InitWram
    /\ InitRegion /\ InitGenesis
    /\ leftover_vdp_cycles = 0
    /\ frame_count = 0
    /\ reset_frames_remaining = 0
    /\ \E battery \in BOOLEAN : sms_ram = [battery |-> battery, dirty |-> FALSE, unsaved_write |-> FALSE]
    /\ sms_ticked = [t_cycles |-> 0, psg |-> 0, vdp |-> 0, all_ok |-> TRUE]
    /\ sms_soft = [armed |-> FALSE, completed |-> 0, latched |-> 0]
    /\ sms_last = [t_cycles |-> 0, wrote |-> FALSE, frame |-> FALSE,
                   calls |-> <<>>, result |-> "none"]
    /\ sms_ticks = 0

NextSms == TickQuiet \/ TickSample \/ TickFrameComplete \/ SoftReset \/ HardReset

SpecSms == InitSmsInputs /\ [][NextSms]_vars

\* C22: after any sequence of ticks in which every collaborator call
\* succeeded, counted since creation or the last hard reset, the VDP has been
\* ticked 3 * floor(T / 2) times, where T is the number of T-cycles
\* executed, leftover_vdp_cycles is T mod 2 and the PSG has been ticked T
\* times.
C22_VdpAndPsgRatios ==
    sms_ticked.all_ok =>
        /\ sms_ticked.vdp = 3 * (sms_ticked.t_cycles \div 2)
        /\ leftover_vdp_cycles = sms_ticked.t_cycles % 2
        /\ sms_ticked.psg = sms_ticked.t_cycles

\* C22 witness: two instructions of 7 T-cycles have ticked the VDP 21 times,
\* not 18: the half cycle left by the first went into the second
C22_Witness ==
    /\ sms_ticked.all_ok
    /\ sms_ticks = 2
    /\ sms_ticked.t_cycles = 14 /\ sms_ticked.vdp = 21 /\ sms_ticked.psg = 14
    /\ leftover_vdp_cycles = 0

\* after a failed collaborator call the tick has returned from inside a loop
\* and chip ticks are missing
FailureLosesTicks ==
    /\ ~sms_ticked.all_ok
    /\ sms_ticked.vdp < 3 * (sms_ticked.t_cycles \div 2)

\* ticks per behaviour of the frame specification
MaxSmsFrames == 8

SmsFramesRunning == sms_ticks < MaxSmsFrames

\* an instruction of 4 T-cycles during which no frame completes
FrameTickBetween ==
    SmsTick(SmsFramesRunning, 4, FALSE, 0, TRUE, 0, TRUE, TRUE)

\* an instruction of 4 T-cycles whose third VDP tick completes the frame
FrameTick ==
    \E wrote \in BOOLEAN, render_ok \in BOOLEAN :
        SmsTick(SmsFramesRunning, 4, wrote, 0, TRUE, 3, render_ok, TRUE)

FrameSoftReset == SmsSoftReset(SmsFramesRunning)

FrameHardReset == SmsHardReset(SmsFramesRunning)

NextSmsFrames == FrameTickBetween \/ FrameTick \/ FrameSoftReset \/ FrameHardReset

SpecSmsFrames == InitSmsInputs /\ [][NextSmsFrames]_vars

\* a step that is one tick of the Master System
SmsTicked == sms_ticks' = sms_ticks + 1

\* the tick called the collaborator
Called(device_calls, name) == \E i \in DOMAIN device_calls : device_calls[i] = name

\* C30 as stated: after soft_reset the RESET button is reported pressed at
\* exactly the next 5 completed frames and released at the 6th and every
\* later completed frame, until soft_reset is called again.
C30_ResetHeldFiveFrames ==
    [][(SmsTicked /\ sms_soft.armed /\ sms_last'.frame) =>
          /\ Called(sms_last'.calls, set_reset(TRUE)) <=> sms_soft'.completed <= 5
          /\ Called(sms_last'.calls, set_reset(FALSE)) <=> sms_soft'.completed >= 6]_vars

\* C30 amended: after soft_reset the RESET button is reported pressed at
\* exactly the next 5 completed frames that render_frame accepted and
\* released at the 6th and every later such frame, until soft_reset is
\* called again; a completed frame whose render_frame fails reports nothing
\* and is not counted.
C30_ResetHeldFiveFrames_Amended ==
    [][(SmsTicked /\ sms_soft.armed /\ sms_last'.frame) =>
          IF sms_last'.result = "Render"
          THEN /\ ~Called(sms_last'.calls, set_reset(TRUE))
               /\ ~Called(sms_last'.calls, set_reset(FALSE))
               /\ sms_soft'.latched = sms_soft.latched
          ELSE /\ Called(sms_last'.calls, set_reset(TRUE)) <=> sms_soft'.latched <= 5
               /\ Called(sms_last'.calls, set_reset(FALSE)) <=> sms_soft'.latched >= 6]_vars

\* C30 witness: six frames after a soft_reset, the sixth has reported RESET
\* released; a seventh frame in between was refused by the renderer
C30_Witness ==
    /\ sms_soft.armed /\ sms_soft.latched = 6 /\ sms_soft.completed = 7
    /\ Called(sms_last.calls, set_reset(FALSE))
    /\ reset_frames_remaining = 0

\* a hard reset between the frames does not release the button early
HeldAcrossHardReset ==
    /\ sms_soft.armed /\ sms_soft.latched = 2 /\ frame_count = 1
    /\ Called(sms_last.calls, set_reset(TRUE))

\* frames per behaviour of the specification of a second of play
MaxSmsLongFrames == 61

\* an instruction that completes a frame the renderer accepts
LongFrameTick ==
    \E wrote \in BOOLEAN, save_ok \in BOOLEAN :
        SmsTick(sms_ticks < MaxSmsLongFrames, 4, wrote, 0, TRUE, 3, TRUE, save_ok)

NextSmsLong == LongFrameTick

SpecSmsLong == InitSmsInputs /\ [][NextSmsLong]_vars

\* C24: whenever a frame completes while the battery-backed cartridge RAM is
\* dirty, persist_save is invoked exactly once at that frame boundary (taken
\* here over the frames that the renderer accepted).
C24_PersistAtEveryDirtyFrame ==
    [][(/\ SmsTicked
        /\ sms_last'.frame /\ sms_last'.result # "Render"
        /\ sms_ram.battery
        /\ sms_ram.dirty \/ sms_last'.wrote)
       => Persists(sms_last'.calls) = 1]_vars

\* as built: persist_save is invoked, once, exactly at the rendered frames
\* whose number is a multiple of 60 and that find battery-backed RAM dirty
PersistEverySixtiethFrame ==
    [][SmsTicked =>
          /\ Persists(sms_last'.calls) <= 1
          /\ Persists(sms_last'.calls) = 1 <=>
                /\ sms_last'.frame /\ sms_last'.result # "Render"
                /\ frame_count' % 60 = 0
                /\ sms_ram.battery
                /\ sms_ram.dirty \/ sms_last'.wrote]_vars

\* a frame has completed and was rendered, the RAM is dirty, nothing was saved
C24_DirtyFrameNotSaved ==
    /\ sms_last.frame /\ sms_last.result = "FrameRendered"
    /\ sms_ram.battery /\ sms_ram.dirty
    /\ ~Called(sms_last.calls, "persist_save")

\* the 60th frame has saved the RAM
SixtiethFrameSaved ==
    /\ frame_count = 60
    /\ sms_last.calls = <<"render_frame", "set_inputs", set_reset(FALSE), "persist_save">>
    /\ sms_last.result = "FrameRendered"
    /\ ~sms_ram.dirty

\* the dirty flag is cleared before persist_save is called: the save writer
\* has failed at the 60th frame and the flag is cleared all the same
SixtiethFrameSaveFailed ==
    /\ frame_count = 60
    /\ sms_last.result = "SaveWrite"
    /\ ~sms_ram.dirty

(***************************************************************************)
(* Genesis: the Z80 bank register over runs of writes, from Memory::new.   *)
(***************************************************************************)
\* bus operations per behaviour of the bank register specification
MaxBankOps == 10

\* a Z80 write to the bank register: the first and the last of its
\* addresses, bytes with bit 0 clear and set
BankWrite ==
    WriteMemory(bus_ops < MaxBankOps, {\h6000, \h60FF}, {\h00, \h01, \hFE, \hFF})

\* a 68000 byte write that the Z80 area passes on to the bank register
BankWriteFrom68k == WriteByte(bus_ops < MaxBankOps, {\hA06000}, {\h01})

\* a Z80 read through the bank window
BankWindowRead == ReadMemory(bus_ops < MaxBankOps, {\h8000}, {NoEnv})

NextBank == BankWrite \/ BankWriteFrom68k \/ BankWindowRead

SpecBank == Init /\ [][NextBank]_vars

\* the number whose binary digits are the bits, the first the least
RECURSIVE BitsValue(_)
BitsValue(bits) ==
    IF bits = <<>> THEN 0
    ELSE (IF Head(bits) THEN 1 ELSE 0) + (2 * BitsValue(Tail(bits)))

\* a step that wrote a bit to the bank register
BankBitWritten ==
    /\ bus_ops' = bus_ops + 1
    /\ WritesBankBit(bus_last'.op, bus_last'.address)

\* C31: the Z80 bank register is a 9-bit shift register: each write to
\* $6000-$60FF shifts bank_number right by one and puts bit 0 of the value
\* written in at bit 8; so bank_number stays below 512, every mapped 68000
\* address is below $1000000, and after 9 consecutive writes bank_number is
\* the 9 bits written, the first written the least significant.
C31_BankShiftRegister ==
    /\ [](/\ memory.z80_bank_register.bank_number < 512
          /\ \A z80_address \in {\h8000, \hFFFF} :
                map_to_68k_address(memory.z80_bank_register, z80_address) < 16777216
          /\ Len(bank_bits) = 9 =>
                memory.z80_bank_register.bank_number = BitsValue(bank_bits))
    /\ [][BankBitWritten =>
            memory'.z80_bank_register.bank_number =
                (memory.z80_bank_register.bank_number \div 2)
                + (IF bit(bus_last'.data, 0) THEN 256 ELSE 0)]_vars

\* C31 witness: nine writes, the seventh and the ninth with bit 0 set, have
\* made the bank $140, the one of the Z80's own area
C31_Witness ==
    /\ bank_bits = <<FALSE, FALSE, FALSE, FALSE, FALSE, FALSE, TRUE, FALSE, TRUE>>
    /\ memory.z80_bank_register.bank_number = \h140
    /\ bus_last.op = "write_memory" /\ bus_last.address = \h60FF
    /\ bus_last.data = \hFF

\* a tenth write has pushed the first bit out
TenthWriteDropsFirst ==
    /\ bus_ops = 10 /\ Len(bank_bits) = 9
    /\ memory.z80_bank_register.bank_number = \h1FF
    /\ bus_last.data = \h01

(***************************************************************************)
(* Genesis: the calls between the two bus implementations.                 *)
(***************************************************************************)
\* C37: every bus access ends after at most one call from one bus
\* implementation to the other: a 68000 access of $A00000-$A0FFFF reaches
\* the Z80 bus only at $0000-$7FFF, never in the bank window, and a Z80 bank
\* window access reaches the 68000 bus only outside $A00000-$A0FFFF, so the
\* two never call each other in a cycle.
C37_OneCrossBusCall ==
    LET address == bus_last.address % (ADDRESS_MASK + 1)
    IN  /\ Len(bus_last.via) <= 1
        /\ \A i \in DOMAIN bus_last.via :
              LET hop == bus_last.via[i]
              IN  /\ hop.bus = "z80" => InRange(hop.address, \h0000, \h7FFF)
                  /\ hop.bus = "m68k" =>
                        InRange(hop.address, 0, ADDRESS_MASK) /\ ~OwnArea(hop.address)
        /\ (bus_last.op \in {"read_byte", "read_word", "write_byte", "write_word"}
            /\ OwnArea(address)) =>
              bus_last.via = <<[bus |-> "z80", address |-> address % 32768]>>
        /\ (bus_last.op \in {"read_memory", "write_memory"} /\ InWindow(bus_last.address)) =>
              LET m == Mapped(memory.z80_bank_register.bank_number, bus_last.address)
              IN  IF OwnArea(m)
                  THEN bus_last.via = <<>> /\ bus_last.abort = "panic"
                  ELSE bus_last.via = <<[bus |-> "m68k", address |-> m]>>

\* C37 witness: a Z80 read at $8000 with bank $1C0 has called the 68000 bus
\* once, at $E00000, and returned the byte of main RAM
C37_Witness ==
    /\ bus_last.op = "read_memory" /\ bus_last.address = \h8000
    /\ memory.z80_bank_register.bank_number = \h1C0
    /\ bus_last.via = <<[bus |-> "m68k", address |-> \hE00000]>>
    /\ bus_last.value = \h12 /\ bus_last.abort = "none"

\* a 68000 access of the upper half of the Z80 area has reached the Z80 bus
\* below the window
UpperHalfMirrorsLower ==
    /\ bus_last.op = "read_byte" /\ bus_last.address = \hA0FFFF
    /\ bus_last.via = <<[bus |-> "z80", address |-> \h7FFF]>>

(***************************************************************************)
(* SmsGgEmulator: a tick that a collaborator fails.                        *)
(***************************************************************************)
\* C38: when push_sample or render_frame returns an error inside tick, the
\* PSG and the VDP have still been advanced by the full cycle count of the
\* instruction the Z80 executed in that tick, so the CPU : PSG : VDP ratio
\* still holds after the failed tick.
C38_FailedTickAdvancesFully ==
    [][(SmsTicked /\ sms_last'.result \in {"Audio", "Render"}) =>
          /\ sms_ticked'.psg = sms_ticked.psg + sms_last'.t_cycles
          /\ sms_ticked'.vdp = sms_ticked.vdp
                               + vdp_cycles(sms_last'.t_cycles, leftover_vdp_cycles)
          /\ leftover_vdp_cycles' = (sms_last'.t_cycles + leftover_vdp_cycles) % 2]_vars

\* as built: a failed push_sample leaves the rest of the PSG ticks and all
\* VDP ticks of the instruction undone and the leftover as it was; a failed
\* render_frame leaves the VDP ticks after the frame's last undone
FailedTickAsBuilt ==
    [][SmsTicked =>
          /\ sms_last'.result = "Audio" =>
                /\ sms_ticked'.psg <= sms_ticked.psg + sms_last'.t_cycles
                /\ sms_ticked'.vdp = sms_ticked.vdp
                /\ leftover_vdp_cycles' = leftover_vdp_cycles
          /\ sms_last'.result = "Render" =>
                /\ sms_ticked'.psg = sms_ticked.psg + sms_last'.t_cycles
                /\ sms_ticked'.vdp < sms_ticked.vdp
                                     + vdp_cycles(sms_last'.t_cycles, leftover_vdp_cycles)]_vars

\* after a failed push_sample the Z80 is 4 T-cycles on, the PSG 2, the VDP 0
C38_AudioFailureLosesTicks ==
    /\ sms_ticks = 1 /\ sms_last.result = "Audio"
    /\ sms_ticked = [t_cycles |-> 4, psg |-> 2, vdp |-> 0, all_ok |-> FALSE]

(***************************************************************************)
(* Both consoles: a write of the save RAM reaches persist_save.  The runs  *)
(* keep the last tick of the Genesis for a frame that the renderer and     *)
(* the audio output accept, and every tick of the Master System completes  *)
(* such a frame; these frame ticks are weakly fair.                        *)
(***************************************************************************)
\* a Genesis tick that completes no frame
SaveTickBetween ==
    /\ gen_ticks + 2 < MaxGenTicks
    /\ \E wrote \in BOOLEAN : GenesisTick(4, wrote, FALSE, TRUE, TRUE, TRUE)

\* a Genesis tick whose frame the renderer or the audio output refuses
SaveTickRefused ==
    /\ gen_ticks + 2 < MaxGenTicks
    /\ \E render_ok \in BOOLEAN :
          GenesisTick(4, FALSE, TRUE, render_ok, FALSE, TRUE)

\* a Genesis tick whose frame the renderer and the audio output accept
SaveTickFrame ==
    /\ gen_ticks + 1 < MaxGenTicks
    /\ \E wrote \in BOOLEAN, save_ok \in BOOLEAN :
          GenesisTick(4, wrote, TRUE, TRUE, TRUE, save_ok)

NextSaves == SaveTickBetween \/ SaveTickRefused \/ SaveTickFrame \/ LongFrameTick

SpecSaves ==
    /\ InitGenesisInputs
    /\ [][NextSaves]_vars
    /\ WF_vars(SaveTickFrame)
    /\ WF_vars(LongFrameTick)

\* the Genesis save RAM holds a write that no persist_save has been given
GenesisUnsaved == gen_ram.persistent /\ ~gen_ram.empty /\ gen_ram.unsaved_write

\* the Master System save RAM holds a write that no persist_save has been given
SmsUnsaved == sms_ram.battery /\ sms_ram.unsaved_write

SmsUnsavedFor59Frames == frame_count = 59 /\ SmsUnsaved /\ sms_ram.dirty

(***************************************************************************)
(* SNES Memory (snes-core/src/memory.rs): the WRAM port of $2180-$2183.    *)
(***************************************************************************)
MAIN_RAM_LEN == 131072

\* main_ram[address]
main_ram_at(ram, address) == IF address \in DOMAIN ram THEN ram[address] ELSE 0

\* main_ram[address] = value
main_ram_with(ram, address, value) ==
    [a \in DOMAIN ram \cup {address} |-> IF a = address THEN value ELSE ram[a]]

\* (wram_port_address + 1) & ((MAIN_RAM_LEN - 1) as u32)
increment_wram_port_address(address) == (address + 1) % MAIN_RAM_LEN

\* (wram_port_address & 0xFFFF00) | u32::from(value)
write_wram_port_address_low(address, value) ==
    ((address \div 256) % 65536) * 256 + value

\* (wram_port_address & 0xFF00FF) | (u32::from(value) << 8)
write_wram_port_address_mid(address, value) ==
    ((address \div 65536) % 256) * 65536 + value * 256 + (address % 256)

\* the high byte of the address taken whole from the written value
write_wram_port_address_high_whole(address, value) ==
    (address % 65536) + value * 65536

\* (wram_port_address & 0x00FFFF) | (u32::from(value & 0x01) << 16)
write_wram_port_address_high(address, value) ==
    (address % 65536) + (value % 2) * 65536

\* operations per behaviour
MaxWramOps == 5

\* the bytes written to the address registers and to the port
WramAddressBytes == {\h00, \h01, \hFE, \hFF}
WramDataBytes == {\hA5}

CanWram == wram_ops < MaxWramOps /\ wram_last.abort = "none"

WramOp(op, value) ==
    [op |-> op, value |-> value, address |-> wram_port_address, abort |-> "none"]

\* an index past the end of main_ram panics
WramIndexAbort(op, value) ==
    [op |-> op, value |-> value, address |-> wram_port_address,
     abort |-> "index_out_of_bounds"]

\* Memory::read_wram_port
ReadWramPort ==
    /\ CanWram
    /\ wram_ops' = wram_ops + 1
    /\ IF wram_port_address < MAIN_RAM_LEN
       THEN /\ wram_last' = WramOp("read_wram_port",
                                   main_ram_at(main_ram, wram_port_address))
            /\ wram_port_address' = increment_wram_port_address(wram_port_address)
       ELSE /\ wram_last' = WramIndexAbort("read_wram_port", 0)
            /\ wram_port_address' = wram_port_address
    /\ UNCHANGED main_ram
    /\ UNCHANGED wram_rest

\* Memory::write_wram_port
WriteWramPort ==
    /\ CanWram
    /\ wram_ops' = wram_ops + 1
    /\ \E value \in WramDataBytes :
          IF wram_port_address < MAIN_RAM_LEN
          THEN /\ main_ram' = main_ram_with(main_ram, wram_port_address, value)
               /\ wram_last' = WramOp("write_wram_port", value)
               /\ wram_port_address' = increment_wram_port_address(wram_port_address)
          ELSE /\ wram_last' = WramIndexAbort("write_wram_port", value)
               /\ UNCHANGED <<main_ram, wram_port_address>>
    /\ UNCHANGED wram_rest

\* Memory::write_wram_port_address_low
WriteWramPortAddressLow ==
    /\ CanWram
    /\ wram_ops' = wram_ops + 1
    /\ \E value \in WramAddressBytes :
          /\ wram_port_address' = write_wram_port_address_low(wram_port_address, value)
          /\ wram_last' = WramOp("write_wram_port_address_low", value)
    /\ UNCHANGED main_ram
    /\ UNCHANGED wram_rest

\* Memory::write_wram_port_address_mid
WriteWramPortAddressMid ==
    /\ CanWram
    /\ wram_ops' = wram_ops + 1
    /\ \E value \in WramAddressBytes :
          /\ wram_port_address' = write_wram_port_address_mid(wram_port_address, value)
          /\ wram_last' = WramOp("write_wram_port_address_mid", value)
    /\ UNCHANGED main_ram
    /\ UNCHANGED wram_rest

\* Memory::write_wram_port_address_high
WriteWramPortAddressHigh ==
    /\ CanWram
    /\ wram_ops' = wram_ops + 1
    /\ \E value \in WramAddressBytes :
          /\ wram_port_address' = write_wram_port_address_high(wram_port_address, value)
          /\ wram_last' = WramOp("write_wram_port_address_high", value)
    /\ UNCHANGED main_ram
    /\ UNCHANGED wram_rest

NextWram ==
    \/ ReadWramPort
    \/ WriteWramPort
    \/ WriteWramPortAddressLow
    \/ WriteWramPortAddressMid
    \/ WriteWramPortAddressHigh

SpecWram == Init /\ [][NextWram]_vars

\* C40: after any sequence of WRAM port address writes (low, mid, high) and
\* WRAM port reads and writes, wram_port_address stays below 0x20000, so the
\* port never indexes outside the 128 KB main RAM; each port read or write
\* accesses the byte at the current address and then advances the address by
\* one, wrapping from 0x1FFFF to 0; the high-byte write uses only bit 0 of
\* the written value.
C40_WramPortAddressInRange ==
    /\ [](/\ wram_port_address \in 0..(MAIN_RAM_LEN - 1)
          /\ wram_last.abort = "none"
          /\ DOMAIN main_ram \subseteq 0..(MAIN_RAM_LEN - 1))
    /\ [][/\ wram_last'.op = "read_wram_port" =>
                /\ wram_last'.value = main_ram_at(main_ram, wram_port_address)
                /\ main_ram' = main_ram
          /\ wram_last'.op = "write_wram_port" =>
                /\ main_ram_at(main_ram', wram_port_address) = wram_last'.value
                /\ \A a \in DOMAIN main_ram \ {wram_port_address} :
                      main_ram_at(main_ram', a) = main_ram[a]
          /\ wram_last'.op \in {"read_wram_port", "write_wram_port"} =>
                wram_port_address' = IF wram_port_address = \h1FFFF THEN 0
                                     ELSE wram_port_address + 1
          /\ wram_last'.op = "write_wram_port_address_high" =>
                /\ wram_port_address' \div 65536 = wram_last'.value % 2
                /\ wram_port_address' % 65536 = wram_port_address % 65536]_vars

\* C40 witness: with the address registers written $FF, $FF, $FF the port
\* stood at $1FFFF; a write put its byte there and the address wrapped to 0,
\* where a read found 0
C40_Witness ==
    /\ wram_last = [op |-> "read_wram_port", value |-> 0, address |-> 0,
                    abort |-> "none"]
    /\ wram_port_address = 1
    /\ main_ram_at(main_ram, \h1FFFF) = \hA5
    /\ wram_ops = 5

\* the low and the middle byte are replaced and the bank bit is kept
WramLowMidKeepBank ==
    /\ wram_last.op = "write_wram_port_address_mid" /\ wram_last.value = \hFE
    /\ wram_last.address = \h10001
    /\ wram_port_address = \h1FE01

=============================================================================
